---- MODULE Spec2Model ----
(***************************************************************************)
(* Localization sync: the orchestration and batched-upsert pipeline.       *)
(*                                                                         *)
(* One logical task runs one entry point at a time:                        *)
(*   - SyncService.upsert            (services/sync_service.py)            *)
(*   - do_upsert                     (localhost_upsert.py, search + upsert)*)
(*   - SearchClient.search           (called directly, any max_retries)    *)
(*   - UpsertClient.upsert_batch     (called directly, any max_retries)    *)
(* Every await on the network is split in a send step and a receive step,  *)
(* so that the number of requests in flight is part of the state.          *)
(***************************************************************************)
EXTENDS Integers, Sequences, FiniteSets, TLC

\* ------------------------------------------------------------------ bounds
MaxMsgs == 3
MaxSearchMsgs == 2
MaxBatchSize == 2
MaxRetriesBound == 4
MaxModules == 2
MaxCommands == 2
MaxWrites == 2

\* ------------------------------------------------------- program constants
SearchDefaultMaxRetries == 3
UpsertDefaultMaxRetries == 3

NONE == "None"

\* ------------------------------------------------------------- exceptions
\* at: the ordinal of the request attempt that produced it (0: none); body:
\* for an HTTP status error, the "Errors" list of e.response.json() as a
\* one-element sequence, empty when the body has no "Errors" field
Exc(type, detail) == [type |-> type, detail |-> detail, at |-> 0, body |-> <<>>]
ExcAt(e, k) == [e EXCEPT !.at = k]
WithBody(e, body) == [e EXCEPT !.body = body]
NoExc == Exc(NONE, "")
\* str(e)
ExcStr(e) == e.detail

Ok(v) == [exc |-> NoExc, val |-> v]
Raise(e) == [exc |-> e, val |-> ""]
Failed(r) == r.exc # NoExc

RECURSIVE FirstError(_)
\* Python evaluates the calls in order: the first one that raises decides
FirstError(rs) ==
  IF rs = <<>> THEN NoExc
  ELSE IF Failed(Head(rs)) THEN Head(rs).exc ELSE FirstError(Tail(rs))

\* --------------------------------------------------------------- settings
\* The environment table of one deployment: qa and uat are configured, demo
\* has no API URL (api_url defaults to None), uat has no french locale.
EnvConfig ==
  [ uat  |-> [api_url |-> "https://uat",  tenant_id |-> "mz", english |-> "en_IN", french |-> ""],
    qa   |-> [api_url |-> "https://qa",   tenant_id |-> "mz", english |-> "en_MZ", french |-> "fr_MZ"],
    demo |-> [api_url |-> "",             tenant_id |-> "mz", english |-> "en_MZ", french |-> "fr_MZ"] ]

SourceEnvs == {"qa", "demo", "prod"}
TargetEnvs == {"qa", "uat", "demo", "prod"}
Langs == {"en", "fr", "de"}

_get_env_config(env) ==
  IF env \in DOMAIN EnvConfig THEN Ok(env) ELSE Raise(Exc("ValueError", "Unknown environment"))

get_api_url(env) ==
  IF Failed(_get_env_config(env)) THEN _get_env_config(env)
  ELSE IF EnvConfig[env].api_url = "" THEN Raise(Exc("ValueError", "No API URL configured"))
  ELSE Ok(EnvConfig[env].api_url)

get_tenant_id(env) ==
  IF Failed(_get_env_config(env)) THEN _get_env_config(env)
  ELSE Ok(EnvConfig[env].tenant_id)

\* base_url = self.get_api_url(env); f"{base_url.rstrip('/')}/user/oauth/token"
get_auth_url(env) ==
  IF Failed(get_api_url(env)) THEN get_api_url(env)
  ELSE Ok(get_api_url(env).val \o "/user/oauth/token")

LocalhostUrl == "http://localhost"

\* an upsert URL that is the remote one in every mode
get_upsert_url_AlwaysRemote(is_localhost, env) == get_api_url(env)
\* if self.is_localhost: return f"http://localhost:{self.localhost_port}"
get_upsert_url(is_localhost, env) ==
  IF is_localhost THEN Ok(LocalhostUrl) ELSE get_api_url(env)

LangKey(language) ==
  CASE language = "en" -> "english"
    [] language = "fr" -> "french"
    [] OTHER -> ""

get_locale(env, language) ==
  IF LangKey(language) = "" THEN Raise(Exc("ValueError", "Unknown language"))
  ELSE IF Failed(_get_env_config(env)) THEN _get_env_config(env)
  ELSE IF EnvConfig[env][LangKey(language)] = "" THEN Raise(Exc("ValueError", "No locale configured"))
  ELSE Ok(EnvConfig[env][LangKey(language)])

\* self.settings.get_api_key(env): SyncService calls it and the Settings class
\* of config/settings.py does not define it, so on that class the attribute
\* lookup raises.  A settings object that provides the method returns a key.
get_api_key(has_api_key, env) ==
  IF ~has_api_key THEN Raise(Exc("AttributeError", "get_api_key"))
  ELSE Ok("key")

\* --------------------------------------------------------------- messages
Modules == <<"m1", "m2">>
Msg(i, locale) ==
  [code |-> i, message |-> i, module |-> Modules[(i % 2) + 1], locale |-> locale]
MsgList(n, locale) == [i \in 1..n |-> Msg(i, locale)]

\* messages[i : i + b] for 0-based i and b >= 1
Slice(s, i, b) ==
  SubSeq(s, i + 1, IF i + b < Len(s) THEN i + b ELSE Len(s))

\* ------------------------------------------------------------------ state
VARIABLES
  settings,        \* the script that runs and its Settings object
  files,           \* requests/search.json and requests/upsert.json exist;
                   \* upsert_data: the "RequestInfo" of upsert.json where its
                   \* fields are looked at (<<>>: they are not), and how
                   \* many times it was written then
  svc_auth_token,  \* SyncService._auth_token
  svc_token_written, \* authenticate() has assigned _auth_token on this instance
  pc,              \* position of the one task
  run,             \* arguments, locals and history of the current call
  retry,           \* locals of the running _request_with_retry
  ub,              \* locals of the running upsert_batch
  net,             \* the network: requests in flight, requests sent, event log
  clients,         \* the httpx clients the gateways of the call hold open
  cli,             \* the command of main.py that drives the runs, if one does
  result           \* what the call returned or raised

vars == <<settings, files, svc_auth_token, svc_token_written, pc, run, retry, ub, net, clients,
          cli, result>>

NoRun ==
  [ entry |-> "none", source_env |-> "", target_env |-> "", lang |-> "",
    module |-> NONE, batch_size |-> 0, auth_token |-> NONE, max_retries |-> 0,
    source_locale |-> "", target_locale |-> "",
    token |-> NONE, search_ri |-> <<>>, upsert_ri |-> <<>>,
    messages |-> <<>>, source_count |-> 0, upsert_module |-> NONE,
    artifacts |-> <<>>,
    auth_ok |-> FALSE, auth_exc |-> NoExc, search_returned |-> FALSE,
    auth_status |-> -1, cached |-> NONE, upsert_url |-> "", response |-> <<>> ]
\* auth_ok: the token endpoint answered this run with a 2xx; auth_exc: what
\* the authentication of this run raised; auth_status: the status the token
\* endpoint answered with (0: the connection failed, -1: no answer yet);
\* cached: SyncService._auth_token when the run started; upsert_url: the
\* base URL the run resolved for its UpsertClient; response: the decoded body
\* that search() is given to parse, when it is applied to a body on its own

NoRetry == [max_retries |-> 0, attempt |-> 0, last_exception |-> NoExc]
NoUb ==
  [ max_retries |-> 0, messages |-> <<>>, batch_size |-> 0, i |-> 0, batch |-> <<>>,
    results |-> <<>>, module |-> NONE ]
\* seen: the statuses (0: no reply, the connection failed) the running or latest
\* _request_with_retry was answered with; acked: the codes of the messages of
\* the upsert requests the target answered with a 2xx; carried: the authToken
\* of the RequestInfo of each search and upsert request that was sent;
\* last_reply: the latest reply to an upsert request; exhausted: the gateways
\* whose retry loop ran out of attempts with a transient failure to raise;
\* urls: the base URL each authentication and upsert request was sent to;
\* modules: the "module" of the body of each upsert request that was sent
NoNet ==
  [ inflight |-> 0, auth |-> 0, search |-> 0, sent |-> <<>>, log |-> <<>>, seen |-> {},
    acked |-> {}, carried |-> {}, last_reply |-> [kind |-> "none"], exhausted |-> {},
    urls |-> {}, modules |-> {} ]

\* which gateway holds an open httpx.AsyncClient, and how many clients the
\* call has created and closed
NoClients ==
  [ search |-> FALSE, upsert |-> FALSE, auth |-> FALSE, opened |-> 0, closed |-> 0 ]

\* cmd: "upsert" or "batch" ("none": the entry points are called by another
\* caller); commands: the parsed commands, each a language and its list of
\* modules (for "upsert": the one of the command line); k, j: the command and
\* the module the loops are at; runs: the runs that are over, in order, with
\* what they returned (raised: an exception left the run instead);
\* verdicts: cmd_failed of each command that is done; exit: the exit code of
\* the process (-1: it runs); crashed: an exception left the command
NoCli ==
  [ cmd |-> "none", source_env |-> "", target_env |-> "", batch_size |-> 0,
    commands |-> <<>>, k |-> 0, j |-> 0, runs |-> <<>>,
    has_failure |-> FALSE, cmd_failed |-> FALSE, verdicts |-> <<>>,
    passed |-> 0, failed |-> 0, exit |-> -1, crashed |-> FALSE ]

NoResult ==
  [ kind |-> "none", success |-> FALSE, source_count |-> 0, upsert_results |-> <<>>,
    total_created |-> 0, total_updated |-> 0, total_failed |-> 0,
    error |-> NONE, exc |-> NoExc, value |-> <<>> ]

\* an exception that leaves the entry point
Raised(e) == [NoResult EXCEPT !.kind = "raised", !.exc = e]
\* a list returned by a gateway called directly
Returned(v) == [NoResult EXCEPT !.kind = "list", !.value = v]

\* A SyncService is built on a settings object: the Settings that main.py
\* passes has no get_api_key (has_api_key FALSE), a settings object of another
\* caller may have it.  localhost_upsert.py has no service and always writes
\* to localhost.
ServiceSettings ==
  [program : {"sync_service"}, has_api_key : BOOLEAN, is_localhost : BOOLEAN]
LocalhostUpsertSettings ==
  [program |-> "localhost_upsert", has_api_key |-> FALSE, is_localhost |-> TRUE]
NoSettings == [program |-> "none", has_api_key |-> FALSE, is_localhost |-> FALSE]

Init ==
  /\ settings \in ServiceSettings \cup {LocalhostUpsertSettings}
  /\ files \in [search_json : BOOLEAN, upsert_json : BOOLEAN, upsert_data : {<<>>},
                writes : {0}]
  /\ svc_auth_token = NONE
  /\ svc_token_written = FALSE
  /\ pc = "idle"
  /\ run = NoRun
  /\ retry = NoRetry
  /\ ub = NoUb
  /\ net = NoNet
  /\ clients = NoClients
  /\ cli = NoCli
  /\ result = NoResult

\* ---------------------------------------------------------- SearchClient
\* an event at the transport: a request of a gateway is sent (n: attempt), its
\* reply has arrived (n: attempt), or the task slept n seconds
Ev(ev, what, n) == [ev |-> ev, what |-> what, n |-> n]

\* the decoded JSON body of a search reply: a dict with a "messages" list
\* ("envelope"), a bare list ("list"), or a dict without "messages" ("other")
SearchData(shape, items) == [shape |-> shape, items |-> items]

\* LocalizationMessage(**msg)
LocalizationMessage(msg) ==
  [code |-> msg.code, message |-> msg.message, module |-> msg.module, locale |-> msg.locale]

\* a parser that knows the envelope only
ParseSearchResponse_EnvelopeOnly(data) ==
  IF data.shape = "envelope"
    THEN [i \in DOMAIN data.items |-> LocalizationMessage(data.items[i])]
    ELSE <<>>
\* messages = []; if "messages" in data: ... elif isinstance(data, list): ...
\* ("messages" in data is a key test on a dict and an element test on a list,
\* which a list of message dicts does not pass)
ParseSearchResponse(data) ==
  IF data.shape = "envelope"
    THEN [i \in DOMAIN data.items |-> LocalizationMessage(data.items[i])]
  ELSE IF data.shape = "list"
    THEN [i \in DOMAIN data.items |-> LocalizationMessage(data.items[i])]
  ELSE <<>>

\* a reply of the source environment to one search request
SearchReplies ==
  [kind : {"http"}, status : {200}, n : 0..MaxSearchMsgs, shape : {"envelope", "list"}]
    \cup [kind : {"http"}, status : {200}, n : {0}, shape : {"other"}]
    \cup [kind : {"http"}, status : {400, 503}, n : {0}, shape : {"other"}]
    \cup [kind : {"connect"}, status : {0}, n : {0}, shape : {"other"}]

HTTPStatusError(status) ==
  Exc("HTTPStatusError", IF status < 500 THEN "client error" ELSE "server error")
ConnectError == Exc("ConnectError", "connection failed")

\* except httpx.HTTPStatusError: if e.response.status_code < 500: raise
SearchRaisesNow(status) == status < 500
\* a backoff that does not grow
SearchWaitTime_Constant(attempt) == 1
\* wait_time = 2**attempt
SearchWaitTime(attempt) == 2 ^ attempt
\* if attempt < self.max_retries - 1
SearchSleeps(attempt, max_retries) == attempt < max_retries - 1

SyncResult(success, source_count, upsert_results, created, updated, failed, error) ==
  [NoResult EXCEPT !.kind = "SyncResult", !.success = success,
                   !.source_count = source_count, !.upsert_results = upsert_results,
                   !.total_created = created, !.total_updated = updated,
                   !.total_failed = failed, !.error = error]

\* a handler that drops the message of the exception
UpsertExcept_NoMessage(e) == SyncResult(FALSE, 0, <<>>, 0, 0, 0, NONE)
\* SyncService.upsert: except Exception as e
UpsertExcept(e) == SyncResult(FALSE, 0, <<>>, 0, 0, 0, ExcStr(e))
\* SyncService.upsert_messages: except Exception as e
UpsertMessagesExcept(e, messages) ==
  SyncResult(FALSE, Len(messages), <<>>, 0, 0, 0, ExcStr(e))
\* do_upsert: except Exception as e
DoUpsertExcept(e) == SyncResult(FALSE, 0, <<>>, 0, 0, 0, ExcStr(e))

\* an exception is raised inside the running entry point: it reaches the
\* entry point's except clause, or leaves a gateway that was called directly
Throw(e) ==
  /\ pc' = "returned"
  /\ result' = CASE run.entry = "upsert" -> UpsertExcept(e)
                 [] run.entry = "upsert_messages" -> UpsertMessagesExcept(e, run.messages)
                 [] run.entry = "do_upsert" -> DoUpsertExcept(e)
                 [] OTHER -> Raised(e)

\* _get_client: if self._client is None or self._client.is_closed: a client
\* is created; else the one the gateway has is used again
GetClient(c, gateway) ==
  IF c[gateway] THEN c ELSE [c EXCEPT ![gateway] = TRUE, !.opened = @ + 1]

\* a close() that leaves the client open
Close_Leak(c, gateway) == c
\* close(): if self._client and not self._client.is_closed:
\*     await self._client.aclose(); self._client = None
Close(c, gateway) ==
  IF c[gateway] THEN [c EXCEPT ![gateway] = FALSE, !.closed = @ + 1] ELSE c

\* the positions inside _request_with_retry of each gateway, and inside the
\* "async with UpsertClient(...)" block
InSearchRequest(p) == p \in {"s_loop", "s_wait", "s_sleep"}
InUpsertRequest(p) == p \in {"u_loop", "u_wait", "u_sleep"}
InUpsertBlock(p) == p \in {"ub_enter", "ub_loop"} \/ InUpsertRequest(p)

\* the entry points that use their gateways in "async with" blocks; a caller
\* that builds a gateway and calls it directly closes nothing
Scoped == run.entry \in {"upsert", "upsert_messages", "do_upsert"}

\* What a step does to the clients.  get_token holds its client only while
\* the token request is out ("async with httpx.AsyncClient(...)").  A gateway
\* creates its client when its first _request_with_retry begins.  __aexit__
\* calls close() when control leaves the block, by return or by exception:
\* the UpsertClient block ends when upsert_batch is over; the SearchClient
\* block of do_upsert and of fetch_and_save ends when search() is over, that
\* of SyncService.upsert encloses the rest of the run.  When the call is over its objects are gone.
ClientStep ==
  LET c0 == clients
      c1 == IF pc' = "a_wait" THEN GetClient(c0, "auth")
            ELSE IF pc = "a_wait" THEN Close(c0, "auth") ELSE c0
      c2 == IF InSearchRequest(pc') /\ ~InSearchRequest(pc) THEN GetClient(c1, "search") ELSE c1
      c3 == IF InUpsertRequest(pc') /\ ~InUpsertRequest(pc) THEN GetClient(c2, "upsert") ELSE c2
      c4 == IF Scoped /\ InUpsertBlock(pc) /\ ~InUpsertBlock(pc') THEN Close(c3, "upsert") ELSE c3
      c5 == IF \/ run.entry \in {"do_upsert", "fetch_and_save"}
                  /\ InSearchRequest(pc) /\ ~InSearchRequest(pc')
               \/ run.entry = "upsert" /\ pc' = "returned"
            THEN Close(c4, "search") ELSE c4
  IN clients' = IF pc' = "idle" THEN NoClients ELSE c5

\* a retry loop that makes one attempt more than its limit
StartRetry_OneMore(max_retries) == [NoRetry EXCEPT !.max_retries = max_retries + 1]
\* _request_with_retry: client = await self._get_client(); last_exception = None
StartRetry(max_retries) == [NoRetry EXCEPT !.max_retries = max_retries]

\* the max_retries a caller can build a gateway with: any int
RetryLimits == (-1)..MaxRetriesBound

\* a loop end that raises what it has, an exception or None
SearchFinalException_LastOnly(last_exception) == last_exception
\* raise last_exception or Exception("Request failed after retries")
SearchFinalException(last_exception) ==
  IF last_exception # NoExc THEN last_exception
  ELSE Exc("Exception", "Request failed after retries")

\* the authToken of the RequestInfo a gateway puts in its requests; the
\* constructor takes request_info or RequestInfo(), whose authToken is None
ClientAuthToken(request_info) ==
  IF request_info = <<>> THEN NONE ELSE request_info[1].authToken

\* for attempt in range(self.max_retries): response = await client.request(...)
Search_Send ==
  /\ pc = "s_loop"
  /\ retry.attempt < retry.max_retries
  /\ pc' = "s_wait"
  /\ net' = [net EXCEPT !.inflight = @ + 1, !.search = @ + 1,
                        !.log = Append(@, Ev("send", "search", retry.attempt)),
                        !.carried = @ \cup {[what |-> "search",
                                             authToken |-> ClientAuthToken(run.search_ri)]}]
  /\ UNCHANGED <<cli, settings, files, svc_auth_token, svc_token_written, run, retry, ub, result>>
  /\ ClientStep

\* the for loop is over
Search_Exhausted ==
  /\ pc = "s_loop"
  /\ retry.attempt >= retry.max_retries
  /\ Throw(SearchFinalException(retry.last_exception))
  /\ retry' = NoRetry
  /\ net' = [net EXCEPT !.exhausted = IF retry.last_exception # NoExc
                                      THEN @ \cup {"search"} ELSE @]
  /\ UNCHANGED <<cli, settings, files, svc_auth_token, svc_token_written, run, ub>>
  /\ ClientStep

\* what search() does with the response of a 2xx reply
Search_Return(messages) ==
  /\ pc' = CASE run.entry = "upsert" -> "su_searched"
             [] run.entry = "do_upsert" -> "du_searched"
             [] run.entry = "fetch_and_save" -> "fs_searched"
             [] OTHER -> "returned"
  /\ result' = IF run.entry = "search" THEN Returned(messages) ELSE result
  /\ run' = [run EXCEPT !.messages = messages, !.source_count = Len(messages),
                        !.search_returned = TRUE]

\* the reply arrives: return it, raise it, or remember it and go on
Search_Recv ==
  /\ pc = "s_wait"
  /\ \E r \in SearchReplies :
       LET e == ExcAt(IF r.kind = "connect" THEN ConnectError ELSE HTTPStatusError(r.status),
                      retry.attempt + 1)
       IN
       /\ net' = [net EXCEPT !.inflight = @ - 1, !.seen = @ \cup {r.status},
                             !.log = Append(@, Ev("recv", "search", retry.attempt))]
       /\ IF r.kind = "http" /\ r.status < 400
            THEN /\ Search_Return(ParseSearchResponse(
                                   SearchData(r.shape, MsgList(r.n, run.source_locale))))
                 /\ retry' = NoRetry
          ELSE IF r.kind = "http" /\ SearchRaisesNow(r.status)
            THEN /\ Throw(e)
                 /\ retry' = NoRetry
                 /\ UNCHANGED run
          ELSE /\ retry' = [retry EXCEPT !.last_exception = e,
                              !.attempt = IF SearchSleeps(retry.attempt, retry.max_retries)
                                          THEN @ ELSE @ + 1]
               /\ pc' = IF SearchSleeps(retry.attempt, retry.max_retries)
                        THEN "s_sleep" ELSE "s_loop"
               /\ UNCHANGED <<run, result>>
  /\ UNCHANGED <<cli, settings, files, svc_auth_token, svc_token_written, ub>>
  /\ ClientStep

\* await asyncio.sleep(wait_time)
Search_Sleep ==
  /\ pc = "s_sleep"
  /\ pc' = "s_loop"
  /\ retry' = [retry EXCEPT !.attempt = @ + 1]
  /\ net' = [net EXCEPT !.log = Append(@, Ev("sleep", "search", SearchWaitTime(retry.attempt)))]
  /\ UNCHANGED <<cli, settings, files, svc_auth_token, svc_token_written, run, ub, result>>
  /\ ClientStep

\* the bodies search() is applied to: message lists up to MaxMsgs long in
\* either shape, and a dict that has no "messages"
SearchBodies ==
  LET wire == {Msg(i, "en_MZ") : i \in 1..MaxMsgs}
      lists == UNION {[1..k -> wire] : k \in 0..MaxMsgs}
  IN {SearchData(shape, items) : shape \in {"envelope", "list"}, items \in lists}
       \cup {SearchData("other", <<>>)}

\* data = response.json(); the parse; return messages
Search_Parse ==
  /\ pc = "s_parse"
  /\ pc' = "returned"
  /\ result' = Returned(ParseSearchResponse(run.response[1]))
  /\ UNCHANGED <<cli, settings, files, svc_auth_token, svc_token_written, run, retry, ub, net>>
  /\ ClientStep

\* a caller of the gateway: SearchClient(base_url, max_retries=m).search(locale)
Search_Direct ==
  /\ pc = "idle"
  /\ \E m \in RetryLimits, locale \in {"en_MZ", "fr_MZ"} :
       /\ retry' = StartRetry(m)
       /\ run' = [NoRun EXCEPT !.entry = "search", !.source_locale = locale,
                               !.max_retries = m]
  /\ pc' = "s_loop"
  /\ ub' = NoUb
  /\ net' = NoNet
  /\ result' = NoResult
  /\ UNCHANGED <<cli, settings, files, svc_auth_token, svc_token_written>>
  /\ ClientStep

\* ---------------------------------------------------------- UpsertClient
UpsertResult(success, created, failed, errors, messages) ==
  [ success |-> success, created |-> created, updated |-> 0, failed |-> failed,
    errors |-> errors, messages |-> messages ]

\* the bodies of an error reply: without an "Errors" field, or
\* {"Errors": [{"message": "E1"}, {"message": "E2"}]}
ErrorBodies == { <<>>, << <<"E1", "E2">> >> }

\* a reply of the target to one upsert request: a 2xx either echoes the chunk
\* under "messages" or has no "messages" field
UpsertReplies ==
  [kind : {"http"}, status : {200}, echo : BOOLEAN, body : {<<>>}]
    \cup [kind : {"http"}, status : {400, 503}, echo : {FALSE}, body : ErrorBodies]
    \cup [kind : {"connect"}, status : {0}, echo : {FALSE}, body : {<<>>}]

RECURSIVE JoinMessages(_)
\* "; ".join(err.get("message", str(err)) for err in error_data["Errors"])
JoinMessages(errors) ==
  IF errors = <<>> THEN ""
  ELSE IF Len(errors) = 1 THEN errors[1]
  ELSE errors[1] \o "; " \o JoinMessages(Tail(errors))

\* an except clause that keeps the text of the exception
ErrorMsg_Raw(e) == ExcStr(e)
\* error_msg = str(e); if "Errors" in error_data: error_msg = "; ".join(...)
ErrorMsg(e) == IF e.body # <<>> THEN JoinMessages(e.body[1]) ELSE ExcStr(e)

\* a retry loop that takes a client error for a transient one
UpsertRaisesNow_Never(status) == FALSE
\* except httpx.HTTPStatusError: if e.response.status_code < 500: raise
UpsertRaisesNow(status) == status < 500
\* wait_time = 2**attempt
UpsertWaitTime(attempt) == 2 ^ attempt
\* a retry loop without backoff
UpsertSleeps_Never(attempt, max_retries) == FALSE
\* if attempt < self.max_retries - 1
UpsertSleeps(attempt, max_retries) == attempt < max_retries - 1
\* raise last_exception or Exception("Request failed after retries")
UpsertFinalException(last_exception) ==
  IF last_exception # NoExc THEN last_exception
  ELSE Exc("Exception", "Request failed after retries")

\* an upsert() without its except clause
UpsertCatches_Nothing(e) == FALSE
\* upsert(): except httpx.HTTPStatusError as e
UpsertCatches(e) == e.type = "HTTPStatusError"
\* a failure result that keeps the default success=True
UpsertFailure_DefaultSuccess(batch, e) == UpsertResult(TRUE, 0, Len(batch), <<ErrorMsg(e)>>, <<>>)
\* UpsertResult(success=False, failed=len(messages), errors=[error_msg])
UpsertFailure(batch, e) == UpsertResult(FALSE, 0, Len(batch), <<ErrorMsg(e)>>, <<>>)
\* a success result that counts the messages that were sent
UpsertSuccess_CountsSent(result_messages) ==
  UpsertResult(TRUE, Len(ub.batch), 0, <<>>, result_messages)
\* UpsertResult(success=True, created=len(result_messages), updated=0, failed=0, ...)
UpsertSuccess(result_messages) ==
  UpsertResult(TRUE, Len(result_messages), 0, <<>>, result_messages)

\* for i in range(0, len(messages), batch_size): is there a next i
BatchRangeHas(i, n, batch_size) ==
  IF batch_size > 0 THEN i < n ELSE i > n
\* a slice that runs one message into the next chunk
BatchSlice_Overlap(messages, i, batch_size) == Slice(messages, i, batch_size + 1)
\* batch = messages[i : i + batch_size]
BatchSlice(messages, i, batch_size) == Slice(messages, i, batch_size)

\* an empty input answered with one empty outcome
UpsertBatchEmpty_OneOutcome == <<UpsertResult(TRUE, 0, 0, <<>>, <<>>)>>
\* if not messages: return []
UpsertBatchEmpty == <<>>

\* the gateway was called directly: upsert_batch, or upsert on one chunk
DirectUpsert == run.entry \in {"upsert_batch", "upsert_one"}

\* upsert_batch returns to its caller (upsert called directly: its one result)
UpsertBatch_Return(results) ==
  /\ pc' = IF DirectUpsert THEN "returned" ELSE "aggregate"
  /\ result' = IF DirectUpsert THEN Returned(results) ELSE result

\* upsert_batch: if not messages: return []; total_batches = ... // batch_size
UpsertBatch_Enter ==
  /\ pc = "ub_enter"
  /\ IF ub.messages = <<>>
       THEN UpsertBatch_Return(UpsertBatchEmpty)
     ELSE IF ub.batch_size = 0
       THEN Throw(Exc("ZeroDivisionError", "integer division or modulo by zero"))
     ELSE /\ pc' = "ub_loop"
          /\ UNCHANGED result
  /\ UNCHANGED <<cli, settings, files, svc_auth_token, svc_token_written, run, retry, ub, net>>
  /\ ClientStep

\* the head of the batch loop: the next chunk goes to upsert(), or the list
\* of results is returned
UpsertBatch_Loop ==
  /\ pc = "ub_loop"
  /\ IF BatchRangeHas(ub.i, Len(ub.messages), ub.batch_size)
       THEN /\ ub' = [ub EXCEPT !.batch = BatchSlice(ub.messages, ub.i, ub.batch_size)]
            /\ retry' = StartRetry(ub.max_retries)
            /\ net' = [net EXCEPT !.seen = {}]
            /\ pc' = "u_loop"
            /\ UNCHANGED result
       ELSE /\ UpsertBatch_Return(ub.results)
            /\ UNCHANGED <<ub, retry, net>>
  /\ UNCHANGED <<cli, settings, files, svc_auth_token, svc_token_written, run>>
  /\ ClientStep

\* upsert() has its result: results.append(result), and the loop steps on
UpsertBatch_Append(r) ==
  /\ ub' = [ub EXCEPT !.results = Append(@, r), !.i = @ + ub.batch_size]
  /\ pc' = "ub_loop"

\* an exception leaves _request_with_retry inside upsert()
Upsert_Raise(e) ==
  IF UpsertCatches(e)
    THEN /\ UpsertBatch_Append(UpsertFailure(ub.batch, e))
         /\ UNCHANGED result
    ELSE /\ Throw(e)
         /\ UNCHANGED ub

Upsert_Send ==
  /\ pc = "u_loop"
  /\ retry.attempt < retry.max_retries
  /\ pc' = "u_wait"
  /\ net' = [net EXCEPT !.inflight = @ + 1,
                        !.sent = Append(@, [chunk |-> ub.batch, attempt |-> retry.attempt]),
                        !.log = Append(@, Ev("send", "upsert", retry.attempt)),
                        !.urls = @ \cup {[what |-> "upsert", url |-> run.upsert_url]},
                        !.modules = @ \cup {ub.module},
                        !.carried = @ \cup {[what |-> "upsert",
                                             authToken |-> ClientAuthToken(run.upsert_ri)]}]
  /\ UNCHANGED <<cli, settings, files, svc_auth_token, svc_token_written, run, retry, ub, result>>
  /\ ClientStep

Upsert_Exhausted ==
  /\ pc = "u_loop"
  /\ retry.attempt >= retry.max_retries
  /\ Upsert_Raise(UpsertFinalException(retry.last_exception))
  /\ retry' = NoRetry
  /\ net' = [net EXCEPT !.exhausted = IF retry.last_exception # NoExc
                                      THEN @ \cup {"upsert"} ELSE @]
  /\ UNCHANGED <<cli, settings, files, svc_auth_token, svc_token_written, run>>
  /\ ClientStep

Upsert_Recv ==
  /\ pc = "u_wait"
  /\ \E r \in UpsertReplies :
       LET e == ExcAt(IF r.kind = "connect" THEN ConnectError
                      ELSE WithBody(HTTPStatusError(r.status), r.body),
                      retry.attempt + 1)
       IN
       /\ net' = [net EXCEPT !.inflight = @ - 1, !.seen = @ \cup {r.status},
                             !.last_reply = r,
                             !.log = Append(@, Ev("recv", "upsert", retry.attempt)),
                             !.acked = IF r.kind = "http" /\ r.status = 200
                                       THEN @ \cup {ub.batch[k].code : k \in DOMAIN ub.batch}
                                       ELSE @]
       /\ IF r.kind = "http" /\ r.status < 400
            THEN /\ UpsertBatch_Append(UpsertSuccess(IF r.echo THEN ub.batch ELSE <<>>))
                 /\ retry' = NoRetry
                 /\ UNCHANGED result
          ELSE IF r.kind = "http" /\ UpsertRaisesNow(r.status)
            THEN /\ Upsert_Raise(e)
                 /\ retry' = NoRetry
          ELSE /\ retry' = [retry EXCEPT !.last_exception = e,
                              !.attempt = IF UpsertSleeps(retry.attempt, retry.max_retries)
                                          THEN @ ELSE @ + 1]
               /\ pc' = IF UpsertSleeps(retry.attempt, retry.max_retries)
                        THEN "u_sleep" ELSE "u_loop"
               /\ UNCHANGED <<ub, result>>
  /\ UNCHANGED <<cli, settings, files, svc_auth_token, svc_token_written, run>>
  /\ ClientStep

Upsert_Sleep ==
  /\ pc = "u_sleep"
  /\ pc' = "u_loop"
  /\ retry' = [retry EXCEPT !.attempt = @ + 1]
  /\ net' = [net EXCEPT !.log = Append(@, Ev("sleep", "upsert", UpsertWaitTime(retry.attempt)))]
  /\ UNCHANGED <<cli, settings, files, svc_auth_token, svc_token_written, run, ub, result>>
  /\ ClientStep

BatchSizes == (-1)..MaxBatchSize

\* a caller of the gateway:
\* UpsertClient(base_url, max_retries=m).upsert_batch(messages, ..., batch_size=b)
UpsertBatch_Direct ==
  /\ pc = "idle"
  /\ \E n \in 0..MaxMsgs, b \in BatchSizes, m \in RetryLimits :
       /\ ub' = [NoUb EXCEPT !.max_retries = m, !.messages = MsgList(n, "en_IN"),
                             !.batch_size = b, !.module = "m1"]
       /\ run' = [NoRun EXCEPT !.entry = "upsert_batch", !.max_retries = m,
                               !.batch_size = b]
  /\ pc' = "ub_enter"
  /\ retry' = NoRetry
  /\ net' = NoNet
  /\ result' = NoResult
  /\ UNCHANGED <<cli, settings, files, svc_auth_token, svc_token_written>>
  /\ ClientStep

\* upsert(): if not messages: return UpsertResult(success=True, created=0, ...)
UpsertEmpty == UpsertResult(TRUE, 0, 0, <<>>, <<>>)

\* a caller of the gateway: UpsertClient(base_url, max_retries=m).upsert(messages, ...);
\* a chunk that is not empty goes through the request like a chunk of upsert_batch
UpsertOne_Direct ==
  /\ pc = "idle"
  /\ \E n \in 0..MaxMsgs, m \in RetryLimits :
       /\ ub' = [NoUb EXCEPT !.max_retries = m, !.messages = MsgList(n, "en_IN"),
                             !.batch = MsgList(n, "en_IN"), !.batch_size = n,
                             !.module = "m1"]
       /\ run' = [NoRun EXCEPT !.entry = "upsert_one", !.max_retries = m,
                               !.batch_size = n]
       /\ retry' = StartRetry(m)
       /\ pc' = IF n = 0 THEN "returned" ELSE "u_loop"
       /\ result' = IF n = 0 THEN Returned(<<UpsertEmpty>>) ELSE NoResult
  /\ net' = NoNet
  /\ UNCHANGED <<cli, settings, files, svc_auth_token, svc_token_written>>
  /\ ClientStep

\* ------------------------------------------------------------ AuthClient
TokenOf == [uat |-> "T_uat", qa |-> "T_qa", demo |-> "T_demo"]

\* a reply of the token endpoint; a 2xx may lack "access_token"
AuthReplies ==
  [kind : {"http"}, status : {200}, has_token : BOOLEAN]
    \cup [kind : {"http"}, status : {401, 503}, has_token : {FALSE}]
    \cup [kind : {"connect"}, status : {0}, has_token : {FALSE}]

\* the entry points of SyncService that authenticate through self.authenticate
ServiceEntries == {"upsert", "upsert_messages"}

\* where the entry point goes on once it has its token
AfterToken ==
  CASE run.entry = "upsert" -> "su_load"
    [] run.entry = "upsert_messages" -> "um_load"
    [] OTHER -> "du_load"

\* a get_token without raise_for_status()
AuthReplyOk_Always(r) == TRUE
\* response.raise_for_status() lets a 2xx reply through
AuthReplyOk(r) == r.kind = "http" /\ r.status < 400

\* AuthClient.get_token: response = await client.post(...)
Auth_Send ==
  /\ pc = "a_send"
  /\ pc' = "a_wait"
  /\ net' = [net EXCEPT !.inflight = @ + 1, !.auth = @ + 1,
                        !.log = Append(@, Ev("send", "auth", 0)),
                        !.urls = @ \cup {[what |-> "auth",
                                          url |-> get_auth_url(run.target_env).val]}]
  /\ UNCHANGED <<cli, settings, files, svc_auth_token, svc_token_written, run, retry, ub, result>>
  /\ ClientStep

\* response.raise_for_status(); AuthResponse(access_token=result.get("access_token"));
\* SyncService.authenticate stores the token, _authenticate only returns it
Auth_Recv ==
  /\ pc = "a_wait"
  /\ \E r \in AuthReplies :
       LET e == IF r.kind = "connect" THEN ConnectError ELSE HTTPStatusError(r.status)
           access_token == IF r.has_token THEN TokenOf[run.target_env] ELSE NONE
       IN
       /\ net' = [net EXCEPT !.inflight = @ - 1, !.log = Append(@, Ev("recv", "auth", 0))]
       /\ IF AuthReplyOk(r)
            THEN /\ svc_auth_token' = IF run.entry \in ServiceEntries THEN access_token
                                      ELSE svc_auth_token
                 /\ svc_token_written' = IF run.entry \in ServiceEntries THEN TRUE
                                         ELSE svc_token_written
                 /\ run' = [run EXCEPT !.token = access_token,
                                       !.auth_ok = (r.kind = "http" /\ r.status = 200),
                                       !.auth_status = r.status]
                 /\ pc' = AfterToken
                 /\ UNCHANGED result
            ELSE /\ run' = [run EXCEPT !.auth_exc = e, !.auth_status = r.status]
                 /\ Throw(e)
                 /\ UNCHANGED <<svc_auth_token, svc_token_written>>
  /\ UNCHANGED <<cli, settings, files, retry, ub>>
  /\ ClientStep

\* ----------------------------------------------------------- SyncService
RequestInfo(authToken) == [authToken |-> authToken]

\* _load_request_info: None when the file is missing, else its RequestInfo;
\* then request_info.authToken = token
LoadRequestInfo(exists, token) == IF exists THEN <<RequestInfo(token)>> ELSE <<>>

Artifact(kind, env, locale, module, messages) ==
  [kind |-> kind, env |-> env, locale |-> locale, module |-> module, messages |-> messages]

\* a raw artifact that is written after the transform
RawSnapshot_AfterTransform(fetched, transformed) == transformed
\* the raw search response is saved before the locale is transformed:
\* "messages": [msg.model_dump() for msg in messages]
RawSnapshot(fetched, transformed) == fetched

\* a transform that passes the fetched records on as they are
Transform_Identity(messages, source_locale, target_locale) == messages
\* [LocalizationMessage(code=msg.code, message=msg.message, module=msg.module,
\*                      locale=target_locale) for msg in messages]
Transform(messages, source_locale, target_locale) ==
  IF target_locale # source_locale
    THEN [i \in DOMAIN messages |->
            [code |-> messages[i].code, message |-> messages[i].message,
             module |-> messages[i].module, locale |-> target_locale]]
    ELSE messages

\* a module that is taken from the filter alone
UpsertModule_FilterOnly(module, messages) == module
\* upsert_module = module or messages[0].module
UpsertModule(module, messages) == IF module # NONE THEN module ELSE messages[1].module

\* an empty search reported as a failure
SyncEmpty_Failure == SyncResult(FALSE, 0, <<>>, 0, 0, 0, "No messages found")
\* SyncResult(success=True, source_count=0, ...) of a search without messages
SyncEmpty == SyncResult(TRUE, 0, <<>>, 0, 0, 0, NONE)

\* a total that is overwritten by each outcome instead of added to
SumOf_Last(rs, field) == IF rs = <<>> THEN 0 ELSE rs[Len(rs)][field]
\* sum(r.<field> for r in upsert_results)
RECURSIVE SumOf(_, _)
SumOf(rs, field) == IF rs = <<>> THEN 0 ELSE Head(rs)[field] + SumOf(Tail(rs), field)
\* any() where the code has all()
AllSuccess_Any(rs) == \E i \in DOMAIN rs : rs[i].success
\* all_success = all(r.success for r in upsert_results)
AllSuccess(rs) == \A i \in DOMAIN rs : rs[i].success

\* total_created = sum(...); ...; all_success = all(...); SyncResult(...)
AggregateResult(source_count, upsert_results) ==
  SyncResult(AllSuccess(upsert_results), source_count, upsert_results,
             SumOf(upsert_results, "created"), SumOf(upsert_results, "updated"),
             SumOf(upsert_results, "failed"), NONE)

\* the keyword parameters of UpsertClient.__init__
UpsertClientParams == {"base_url", "timeout", "max_retries", "request_info"}
\* a call with a keyword the constructor does not have raises TypeError
UpsertClientInit(kwargs) ==
  IF kwargs \subseteq UpsertClientParams THEN Ok("")
  ELSE Raise(Exc("TypeError", "unexpected keyword argument"))

\* a resolve step that leaves the target side for later
UpsertResolve_SourceOnly(source_env, target_env, lang) ==
  FirstError(<< get_api_url(source_env),
                get_api_key(settings.has_api_key, source_env),
                get_tenant_id(source_env),
                get_locale(source_env, lang) >>)
\* the eight lookups before the try block, in order
UpsertResolve(source_env, target_env, lang) ==
  FirstError(<< get_api_url(source_env),
                get_api_key(settings.has_api_key, source_env),
                get_tenant_id(source_env),
                get_locale(source_env, lang),
                get_upsert_url(settings.is_localhost, target_env),
                IF ~settings.is_localhost
                  THEN get_api_key(settings.has_api_key, target_env) ELSE Ok(""),
                get_tenant_id(target_env),
                get_locale(target_env, lang) >>)

\* the arguments a command of main.py calls service.upsert with: the
\* environments of the settings, the language and the module the loops are
\* at, the batch size of the command line, and no auth_token
CliAllows(source_env, target_env, lang, module, batch_size, auth_token) ==
  cli.cmd # "none" =>
    /\ cli.exit = -1
    /\ source_env = cli.source_env
    /\ target_env = cli.target_env
    /\ lang = cli.commands[cli.k].lang
    /\ module = cli.commands[cli.k].modules[cli.j]
    /\ batch_size = cli.batch_size
    /\ auth_token = NONE

\* SyncService.upsert is called: the lookups run outside the try block
Upsert_Start ==
  /\ pc = "idle"
  /\ settings.program = "sync_service"
  /\ \E source_env \in SourceEnvs, target_env \in TargetEnvs, lang \in Langs,
        module \in {NONE, "m1", "m2"}, batch_size \in BatchSizes,
        auth_token \in {NONE, "T_caller"} :
       LET err == UpsertResolve(source_env, target_env, lang) IN
       /\ CliAllows(source_env, target_env, lang, module, batch_size, auth_token)
       /\ run' = [NoRun EXCEPT
                    !.entry = "upsert", !.source_env = source_env,
                    !.target_env = target_env, !.lang = lang, !.module = module,
                    !.batch_size = batch_size, !.auth_token = auth_token,
                    !.cached = svc_auth_token,
                    !.upsert_url = get_upsert_url(settings.is_localhost, target_env).val,
                    !.source_locale = get_locale(source_env, lang).val,
                    !.target_locale = get_locale(target_env, lang).val]
       /\ pc' = IF err # NoExc THEN "returned" ELSE "su_token"
       /\ result' = IF err # NoExc THEN Raised(err) ELSE NoResult
  /\ UNCHANGED <<cli, settings, files, svc_auth_token, svc_token_written, retry, ub, net>>
  /\ ClientStep

\* a run that looks at the caller's token only
ResolveToken_IgnoreCache(auth_token, cached) == auth_token
\* token = auth_token or self._auth_token
ResolveToken(auth_token, cached) == IF auth_token # NONE THEN auth_token ELSE cached

\* upsert and upsert_messages:
\* token = auth_token or self._auth_token; if not token: await self.authenticate(...)
Upsert_Token ==
  /\ pc = "su_token"
  /\ LET token == ResolveToken(run.auth_token, svc_auth_token) IN
     IF token # NONE
       THEN /\ run' = [run EXCEPT !.token = token]
            /\ pc' = AfterToken
            /\ UNCHANGED result
     ELSE IF Failed(get_auth_url(run.target_env))
       THEN /\ run' = [run EXCEPT !.auth_exc = get_auth_url(run.target_env).exc]
            /\ Throw(get_auth_url(run.target_env).exc)
     ELSE /\ pc' = "a_send"
          /\ UNCHANGED <<run, result>>
  /\ UNCHANGED <<cli, settings, files, svc_auth_token, svc_token_written, retry, ub, net>>
  /\ ClientStep

\* the request infos are loaded and get the token; SearchClient(...).search(...)
Upsert_Load ==
  /\ pc = "su_load"
  /\ run' = [run EXCEPT !.search_ri = LoadRequestInfo(files.search_json, run.token),
                        !.upsert_ri = LoadRequestInfo(files.upsert_json, run.token),
                        !.max_retries = SearchDefaultMaxRetries]
  /\ retry' = StartRetry(SearchDefaultMaxRetries)
  /\ pc' = "s_loop"
  /\ UNCHANGED <<cli, settings, files, svc_auth_token, svc_token_written, ub, net, result>>
  /\ ClientStep

\* the search has returned: an empty result ends the run; else the raw
\* response is saved, the locale transformed, the body saved and
\* requests/upsert.json updated.  A write can fail (fail_at names it).
Upsert_Searched ==
  /\ pc = "su_searched"
  /\ IF run.messages = <<>>
       THEN /\ result' = SyncEmpty
            /\ pc' = "returned"
            /\ UNCHANGED run
       ELSE \E fail_at \in 0..3 :
         LET transformed == Transform(run.messages, run.source_locale, run.target_locale)
             upsert_module == UpsertModule(run.module, transformed)
             raw == Artifact("search_response", run.source_env, run.source_locale,
                             run.module, RawSnapshot(run.messages, transformed))
             body == Artifact("upsert_body", run.target_env, run.target_locale,
                              upsert_module, transformed)
             tpl == Artifact("upsert_template", run.target_env, run.target_locale,
                             upsert_module, transformed)
             writes == IF run.upsert_ri # <<>> THEN <<raw, body, tpl>> ELSE <<raw, body>>
         IN
         /\ fail_at <= Len(writes)
         /\ IF fail_at = 0
              THEN /\ run' = [run EXCEPT !.messages = transformed,
                                         !.upsert_module = upsert_module,
                                         !.artifacts = writes]
                   /\ pc' = "su_upsert"
                   /\ UNCHANGED result
              ELSE /\ run' = [run EXCEPT
                                !.messages = IF fail_at = 1 THEN @ ELSE transformed,
                                !.upsert_module = IF fail_at = 1 THEN @ ELSE upsert_module,
                                !.artifacts = SubSeq(writes, 1, fail_at - 1)]
                   /\ Throw(Exc("OSError", "write failed"))
  /\ UNCHANGED <<cli, settings, files, svc_auth_token, svc_token_written, retry, ub, net>>
  /\ ClientStep

\* async with UpsertClient(base_url=..., api_key=..., request_info=...):
\*     upsert_results = await upsert_client.upsert_batch(...)
Upsert_OpenUpsertClient ==
  /\ pc = "su_upsert"
  /\ IF Failed(UpsertClientInit({"base_url", "api_key", "request_info"}))
       THEN /\ Throw(UpsertClientInit({"base_url", "api_key", "request_info"}).exc)
            /\ UNCHANGED ub
       ELSE /\ ub' = [NoUb EXCEPT !.max_retries = UpsertDefaultMaxRetries,
                                  !.messages = run.messages,
                                  !.module = run.upsert_module,
                                  !.batch_size = run.batch_size]
            /\ pc' = "ub_enter"
            /\ UNCHANGED result
  /\ UNCHANGED <<cli, settings, files, svc_auth_token, svc_token_written, run, retry, net>>
  /\ ClientStep

\* upsert_batch has returned its results: they are summed into the SyncResult
Aggregate ==
  /\ pc = "aggregate"
  /\ result' = AggregateResult(run.source_count, ub.results)
  /\ pc' = "returned"
  /\ UNCHANGED <<cli, settings, files, svc_auth_token, svc_token_written, run, retry, ub, net>>
  /\ ClientStep

\* ------------------------------------------- SyncService.upsert_messages
\* the two lookups before the try block, in order
UpsertMessagesResolve(target_env) ==
  FirstError(<< get_upsert_url(settings.is_localhost, target_env),
                IF ~settings.is_localhost
                  THEN get_api_key(settings.has_api_key, target_env) ELSE Ok("") >>)

\* SyncService.upsert_messages is called with messages read from a file
UpsertMessages_Start ==
  /\ pc = "idle"
  /\ settings.program = "sync_service"
  /\ \E target_env \in TargetEnvs, n \in 0..MaxSearchMsgs, batch_size \in BatchSizes,
        auth_token \in {NONE, "T_caller"} :
       LET err == UpsertMessagesResolve(target_env) IN
       /\ run' = [NoRun EXCEPT
                    !.entry = "upsert_messages", !.target_env = target_env,
                    !.module = "m1", !.upsert_module = "m1",
                    !.batch_size = batch_size, !.auth_token = auth_token,
                    !.cached = svc_auth_token, !.target_locale = "en_IN",
                    !.upsert_url = get_upsert_url(settings.is_localhost, target_env).val,
                    !.messages = MsgList(n, "en_IN"), !.source_count = n]
       /\ pc' = IF err # NoExc THEN "returned" ELSE "su_token"
       /\ result' = IF err # NoExc THEN Raised(err) ELSE NoResult
  /\ UNCHANGED <<cli, settings, files, svc_auth_token, svc_token_written, retry, ub, net>>
  /\ ClientStep

\* upsert.json is loaded, gets the token and is rewritten with the payload
\* (the write can fail); then UpsertClient(base_url=..., api_key=..., ...)
UpsertMessages_Load ==
  /\ pc = "um_load"
  /\ \E write_fails \in BOOLEAN :
       LET upsert_ri == LoadRequestInfo(files.upsert_json, run.token)
           tpl == Artifact("upsert_template", run.target_env, run.target_locale,
                           run.upsert_module, run.messages)
           init == UpsertClientInit({"base_url", "api_key", "request_info"})
       IN
       /\ write_fails => upsert_ri # <<>>
       /\ run' = [run EXCEPT !.upsert_ri = upsert_ri,
                             !.artifacts = IF upsert_ri # <<>> /\ ~write_fails
                                           THEN <<tpl>> ELSE <<>>]
       /\ IF write_fails
            THEN /\ Throw(Exc("OSError", "write failed"))
                 /\ UNCHANGED ub
          ELSE IF Failed(init)
            THEN /\ Throw(init.exc)
                 /\ UNCHANGED ub
          ELSE /\ ub' = [NoUb EXCEPT !.max_retries = UpsertDefaultMaxRetries,
                                     !.messages = run.messages,
                                     !.module = run.upsert_module,
                                     !.batch_size = run.batch_size]
               /\ pc' = "ub_enter"
               /\ UNCHANGED result
  /\ UNCHANGED <<cli, settings, files, svc_auth_token, svc_token_written, retry, net>>
  /\ ClientStep

\* -------------------------------------------- SyncService.fetch_and_save
\* the four lookups at the top of fetch_and_save, in order
FetchResolve(source_env, lang) ==
  FirstError(<< get_api_url(source_env),
                get_api_key(settings.has_api_key, source_env),
                get_tenant_id(source_env),
                get_locale(source_env, lang) >>)

\* if target_env: the two lookups after the search response was saved
FetchTargetResolve(target_env, lang) ==
  FirstError(<< get_locale(target_env, lang), get_tenant_id(target_env) >>)

\* "module": module or (messages[0].module if messages else "")
FetchModule(module, messages) ==
  IF module # NONE THEN module
  ELSE IF messages # <<>> THEN messages[1].module ELSE ""

\* fetch_and_save is called: the lookups, then search.json is loaded and gets
\* the cached token when there is one (the token of the file is taken to be
\* absent), then SearchClient(...).search(...); nothing is caught
FetchAndSave_Start ==
  /\ pc = "idle"
  /\ settings.program = "sync_service"
  /\ \E source_env \in SourceEnvs, lang \in Langs, module \in {NONE, "m1"},
        target_env \in {NONE, "uat", "qa"} :
       LET err == FetchResolve(source_env, lang) IN
       /\ run' = [NoRun EXCEPT
                    !.entry = "fetch_and_save", !.source_env = source_env,
                    !.target_env = target_env, !.lang = lang, !.module = module,
                    !.cached = svc_auth_token, !.token = svc_auth_token,
                    !.source_locale = get_locale(source_env, lang).val,
                    !.search_ri = IF err = NoExc
                                  THEN LoadRequestInfo(files.search_json, svc_auth_token)
                                  ELSE <<>>,
                    !.max_retries = SearchDefaultMaxRetries]
       /\ retry' = IF err = NoExc THEN StartRetry(SearchDefaultMaxRetries) ELSE retry
       /\ pc' = IF err # NoExc THEN "returned" ELSE "s_loop"
       /\ result' = IF err # NoExc THEN Raised(err) ELSE NoResult
  /\ UNCHANGED <<cli, settings, files, svc_auth_token, svc_token_written, ub, net>>
  /\ ClientStep

\* the search has returned: the raw response is saved, whatever its length;
\* with a target_env the target locale is looked up, the messages are
\* transformed and the body is saved.  A write can fail (fail_at names it).
FetchAndSave_Searched ==
  /\ pc = "fs_searched"
  /\ \E fail_at \in 0..2 :
       LET raw == Artifact("search_response", run.source_env, run.source_locale,
                           run.module, run.messages)
           terr == IF run.target_env = NONE THEN NoExc
                   ELSE FetchTargetResolve(run.target_env, run.lang)
           target_locale == get_locale(run.target_env, run.lang).val
           transformed == [i \in DOMAIN run.messages |->
                             [run.messages[i] EXCEPT !.locale = target_locale]]
           body == Artifact("upsert_body", run.target_env, target_locale,
                            FetchModule(run.module, run.messages), transformed)
       IN
       /\ fail_at = 2 => (run.target_env # NONE /\ terr = NoExc)
       /\ IF fail_at = 1
            THEN /\ Throw(Exc("OSError", "write failed"))
                 /\ UNCHANGED run
          ELSE IF run.target_env = NONE
            THEN /\ run' = [run EXCEPT !.artifacts = <<raw>>]
                 /\ pc' = "returned"
                 /\ result' = Returned(run.messages)
          ELSE IF terr # NoExc
            THEN /\ run' = [run EXCEPT !.artifacts = <<raw>>]
                 /\ Throw(terr)
          ELSE IF fail_at = 2
            THEN /\ run' = [run EXCEPT !.artifacts = <<raw>>, !.target_locale = target_locale]
                 /\ Throw(Exc("OSError", "write failed"))
          ELSE /\ run' = [run EXCEPT !.artifacts = <<raw, body>>,
                                     !.target_locale = target_locale,
                                     !.messages = transformed]
               /\ pc' = "returned"
               /\ result' = Returned(transformed)
  /\ UNCHANGED <<cli, settings, files, svc_auth_token, svc_token_written, retry, ub, net>>
  /\ ClientStep

\* ------------------------------------------------- localhost_upsert.main
\* main() resolves locales and tenants before it runs do_upsert
MainResolve(source_env, target_env, lang) ==
  FirstError(<< get_locale(source_env, lang), get_locale(target_env, lang),
                get_tenant_id(source_env), get_tenant_id(target_env) >>)

\* do_upsert starts: token = await _authenticate(settings, target_env)
DoUpsert_Start ==
  /\ pc = "idle"
  /\ settings.program = "localhost_upsert"
  /\ \E source_env \in {"qa", "demo"}, target_env \in {"uat", "qa", "demo"},
        lang \in Langs, batch_size \in BatchSizes :
       /\ MainResolve(source_env, target_env, lang) = NoExc
       /\ LET started == [NoRun EXCEPT
                            !.entry = "do_upsert", !.source_env = source_env,
                            !.target_env = target_env, !.lang = lang, !.module = "m1",
                            !.batch_size = batch_size,
                            !.upsert_url = LocalhostUrl,
                            !.source_locale = get_locale(source_env, lang).val,
                            !.target_locale = get_locale(target_env, lang).val]
          IN
          IF Failed(get_auth_url(target_env))
            THEN /\ run' = [started EXCEPT !.auth_exc = get_auth_url(target_env).exc]
                 /\ pc' = "returned"
                 /\ result' = DoUpsertExcept(get_auth_url(target_env).exc)
            ELSE /\ run' = started
                 /\ pc' = "a_send"
                 /\ result' = NoResult
  /\ UNCHANGED <<cli, settings, files, svc_auth_token, svc_token_written, retry, ub, net>>
  /\ ClientStep

\* the request infos get the token; source_url = settings.get_api_url(source_env);
\* SearchClient(...).search(...)
DoUpsert_Load ==
  /\ pc = "du_load"
  /\ run' = [run EXCEPT !.search_ri = LoadRequestInfo(files.search_json, run.token),
                        !.upsert_ri = LoadRequestInfo(files.upsert_json, run.token),
                        !.max_retries = SearchDefaultMaxRetries]
  /\ IF Failed(get_api_url(run.source_env))
       THEN /\ Throw(get_api_url(run.source_env).exc)
            /\ UNCHANGED retry
       ELSE /\ retry' = StartRetry(SearchDefaultMaxRetries)
            /\ pc' = "s_loop"
            /\ UNCHANGED result
  /\ UNCHANGED <<cli, settings, files, svc_auth_token, svc_token_written, ub, net>>
  /\ ClientStep

\* the search has returned: an empty result ends the run; else the raw
\* response is saved, the locale transformed and the body saved
DoUpsert_Searched ==
  /\ pc = "du_searched"
  /\ IF run.messages = <<>>
       THEN /\ result' = SyncEmpty
            /\ pc' = "returned"
            /\ UNCHANGED run
       ELSE \E fail_at \in 0..2 :
         LET transformed == Transform(run.messages, run.source_locale, run.target_locale)
             upsert_module == UpsertModule(run.module, transformed)
             raw == Artifact("search_response", run.source_env, run.source_locale,
                             run.module, RawSnapshot(run.messages, transformed))
             body == Artifact("upsert_body", "localhost", run.target_locale,
                              upsert_module, transformed)
             writes == <<raw, body>>
         IN
         IF fail_at = 0
           THEN /\ run' = [run EXCEPT !.messages = transformed,
                                      !.upsert_module = upsert_module,
                                      !.artifacts = writes]
                /\ pc' = "du_upsert"
                /\ UNCHANGED result
           ELSE /\ run' = [run EXCEPT
                             !.messages = IF fail_at = 1 THEN @ ELSE transformed,
                             !.upsert_module = IF fail_at = 1 THEN @ ELSE upsert_module,
                             !.artifacts = SubSeq(writes, 1, fail_at - 1)]
                /\ Throw(Exc("OSError", "write failed"))
  /\ UNCHANGED <<cli, settings, files, svc_auth_token, svc_token_written, retry, ub, net>>
  /\ ClientStep

\* async with UpsertClient(base_url=localhost_url, request_info=...):
\*     upsert_results = await upsert_client.upsert_batch(...)
DoUpsert_OpenUpsertClient ==
  /\ pc = "du_upsert"
  /\ IF Failed(UpsertClientInit({"base_url", "request_info"}))
       THEN /\ Throw(UpsertClientInit({"base_url", "request_info"}).exc)
            /\ UNCHANGED ub
       ELSE /\ ub' = [NoUb EXCEPT !.max_retries = UpsertDefaultMaxRetries,
                                  !.messages = run.messages,
                                  !.module = run.upsert_module,
                                  !.batch_size = run.batch_size]
            /\ pc' = "ub_enter"
            /\ UNCHANGED result
  /\ UNCHANGED <<cli, settings, files, svc_auth_token, svc_token_written, run, retry, net>>
  /\ ClientStep

\* the caller has the result: the locals of the call are gone, what outlives
\* the call is the service's token and the files
CallOver ==
  /\ pc = "returned"
  /\ cli.cmd = "none"
  /\ pc' = "idle"
  /\ run' = NoRun
  /\ retry' = NoRetry
  /\ ub' = NoUb
  /\ net' = NoNet
  /\ result' = NoResult
  /\ UNCHANGED <<cli, settings, files, svc_auth_token, svc_token_written>>
  /\ ClientStep

\* ---------------------------------------------------------------- main.py
\* upsert: the lookups of the command before its loop
UpsertCmdResolve(source_env, target_env, lang) ==
  FirstError(<< get_locale(source_env, lang), get_locale(target_env, lang),
                get_tenant_id(source_env), get_tenant_id(target_env) >>)

\* modules = [m.strip() for m in module.split(",")] if module else [None]
ModuleLists ==
  {<<NONE>>} \cup UNION {[1..n -> {"m1", "m2"}] : n \in 1..MaxModules}

\* the commands of a commands file: a language, and no module or two
BatchCommands == [lang : {"en", "fr"}, modules : {<<NONE>>, <<"m1", "m2">>}]

\* asyncio.run(service.upsert(...)) is over.  An exception that left the run
\* leaves the command too and the process ends with exit code 1.  Else the
\* failure flag is updated and the loops step on; after the last module of
\* a batch command passed or failed is counted; after the last run the
\* process exits with 1 when something failed and with 0 otherwise.
Cli_Collect ==
  /\ pc = "returned"
  /\ cli.cmd # "none"
  /\ IF result.kind = "raised"
       THEN /\ cli' = [cli EXCEPT !.exit = 1, !.crashed = TRUE,
                                  !.runs = Append(@, [k |-> cli.k, module |-> run.module,
                                                      success |-> FALSE, raised |-> TRUE])]
            /\ pc' = "exited"
       ELSE LET ok == result.success
                runs == Append(cli.runs, [k |-> cli.k, module |-> run.module,
                                          success |-> ok, raised |-> FALSE])
                has_failure == cli.has_failure \/ ~ok
                cmd_failed == cli.cmd_failed \/ ~ok
                last_mod == cli.j = Len(cli.commands[cli.k].modules)
                last_cmd == cli.k = Len(cli.commands)
                failed == IF cmd_failed THEN cli.failed + 1 ELSE cli.failed
            IN
            IF cli.cmd = "upsert"
              THEN /\ cli' = [cli EXCEPT !.runs = runs, !.has_failure = has_failure,
                                         !.j = IF last_mod THEN @ ELSE @ + 1,
                                         !.exit = IF ~last_mod THEN -1
                                                  ELSE IF has_failure THEN 1 ELSE 0]
                   /\ pc' = IF last_mod THEN "exited" ELSE "idle"
              ELSE /\ cli' = [cli EXCEPT
                               !.runs = runs,
                               !.cmd_failed = IF last_mod THEN FALSE ELSE cmd_failed,
                               !.verdicts = IF last_mod THEN Append(@, cmd_failed) ELSE @,
                               !.failed = IF last_mod THEN failed ELSE @,
                               !.passed = IF last_mod /\ ~cmd_failed THEN @ + 1 ELSE @,
                               !.j = IF last_mod THEN 1 ELSE @ + 1,
                               !.k = IF last_mod /\ ~last_cmd THEN @ + 1 ELSE @,
                               !.exit = IF ~(last_mod /\ last_cmd) THEN -1
                                        ELSE IF failed > 0 THEN 1 ELSE 0]
                   /\ pc' = IF last_mod /\ last_cmd THEN "exited" ELSE "idle"
  /\ run' = NoRun
  /\ retry' = NoRetry
  /\ ub' = NoUb
  /\ net' = NoNet
  /\ result' = NoResult
  /\ UNCHANGED <<settings, files, svc_auth_token, svc_token_written>>
  /\ ClientStep

\* a command of main.py has built its SyncService and is about to make its
\* first run: upsert --lang l --module ms, or batch on a file of commands
InitCli ==
  /\ settings \in ServiceSettings
  /\ files = [search_json |-> TRUE, upsert_json |-> TRUE, upsert_data |-> <<>>,
                              writes |-> 0]
  /\ svc_auth_token = NONE
  /\ svc_token_written = FALSE
  /\ pc = "idle"
  /\ run = NoRun
  /\ retry = NoRetry
  /\ ub = NoUb
  /\ net = NoNet
  /\ clients = NoClients
  /\ result = NoResult
  /\ \E target_env \in {"uat", "qa"} :
       LET started == [NoCli EXCEPT !.source_env = "qa", !.target_env = target_env,
                                    !.batch_size = MaxBatchSize, !.k = 1, !.j = 1]
       IN
       \/ \E lang \in {"en", "fr"}, modules \in ModuleLists :
            /\ UpsertCmdResolve("qa", target_env, lang) = NoExc
            /\ cli = [started EXCEPT !.cmd = "upsert",
                         !.commands = <<[lang |-> lang, modules |-> modules]>>]
       \/ \E n \in 1..MaxCommands : \E commands \in [1..n -> BatchCommands] :
            cli = [started EXCEPT !.cmd = "batch", !.commands = commands]

NextCli ==
  \/ Upsert_Start
  \/ Upsert_Token
  \/ Auth_Send
  \/ Auth_Recv
  \/ Upsert_Load
  \/ Search_Send
  \/ Search_Recv
  \/ Search_Sleep
  \/ Search_Exhausted
  \/ Upsert_Searched
  \/ Upsert_OpenUpsertClient
  \/ Cli_Collect

SpecCli == InitCli /\ [][NextCli]_vars

\* ------------------------------------------------- requests/upsert.json
\* A RequestInfo with all its fields (the runs above carry its authToken
\* only).  A JSON object is a function on the keys it has.
StrKeys == {"apiId", "ver", "ts", "action", "did", "key", "msgId"}

FullRequestInfos ==
  [ apiId : {"Rainmaker", "asset-services"}, ver : {".01"}, ts : {""},
    action : {"_search", "_create"}, did : {"1"}, key : {""},
    msgId : {"", "20170310130900|en_IN"}, authToken : {NONE, "T_file"},
    userInfo : { <<>>, <<[name |-> NONE, roles |-> <<>>]>>,
                 <<[name |-> "admin", roles |-> <<"ADMIN">>]>> } ]

\* UserInfo.model_dump(mode="json", exclude_none=True)
DumpUserInfo(u) ==
  [k \in {"roles"} \cup (IF u.name # NONE THEN {"name"} ELSE {}) |-> u[k]]

\* a dump that leaves the token out
DumpRequestInfo_NoToken(ri) ==
  [k \in StrKeys \cup (IF ri.userInfo # <<>> THEN {"userInfo"} ELSE {})
     |-> IF k = "userInfo" THEN DumpUserInfo(ri.userInfo[1]) ELSE ri[k]]
\* request_info.model_dump(mode="json", exclude_none=True)
DumpRequestInfo(ri) ==
  [k \in StrKeys \cup (IF ri.authToken # NONE THEN {"authToken"} ELSE {})
                 \cup (IF ri.userInfo # <<>> THEN {"userInfo"} ELSE {})
     |-> IF k = "userInfo" THEN DumpUserInfo(ri.userInfo[1]) ELSE ri[k]]

\* d.get(k, default)
Get(d, k, default) == IF k \in DOMAIN d THEN d[k] ELSE default

\* UserInfo(**ri_data["userInfo"])
LoadUserInfo(u) == [name |-> Get(u, "name", NONE), roles |-> Get(u, "roles", <<>>)]

\* _load_request_info on a file that has "RequestInfo": RequestInfo(apiId=
\* ri_data.get("apiId", "Rainmaker"), ...); if ri_data.get("userInfo"): ...
LoadFullRequestInfo(d) ==
  [ apiId |-> Get(d, "apiId", "Rainmaker"), ver |-> Get(d, "ver", ".01"),
    ts |-> Get(d, "ts", ""), action |-> Get(d, "action", "_search"),
    did |-> Get(d, "did", "1"), key |-> Get(d, "key", ""),
    msgId |-> Get(d, "msgId", ""), authToken |-> Get(d, "authToken", NONE),
    userInfo |-> IF "userInfo" \in DOMAIN d /\ DOMAIN d["userInfo"] # {}
                 THEN <<LoadUserInfo(d["userInfo"])>> ELSE <<>> ]

\* the "RequestInfo" objects of a requests/upsert.json that was written by
\* hand: any of the above, "msgId" or "action" possibly left out
HandWritten ==
  { [k \in DOMAIN DumpRequestInfo(ri) \ drop |-> DumpRequestInfo(ri)[k]] :
      ri \in FullRequestInfos, drop \in SUBSET {"msgId", "action"} }

\* upsert_request_info = self._load_request_info("upsert.json");
\* upsert_request_info.authToken = token
Template_Load ==
  /\ pc = "t_load"
  /\ files.writes < MaxWrites
  /\ \E token \in {NONE, "T_uat", "T_qa"} :
       run' = [run EXCEPT !.token = token,
                 !.upsert_ri = <<[LoadFullRequestInfo(files.upsert_data[1])
                                    EXCEPT !.authToken = token]>>]
  /\ pc' = "t_write"
  /\ UNCHANGED <<cli, settings, files, svc_auth_token, svc_token_written, retry, ub, net,
                 result>>
  /\ ClientStep

\* self._update_upsert_request_file(request_info=upsert_request_info, ...):
\* the file is written again; the next run finds it
Template_Write ==
  /\ pc = "t_write"
  /\ files' = [files EXCEPT !.upsert_data = <<DumpRequestInfo(run.upsert_ri[1])>>,
                            !.writes = @ + 1]
  /\ pc' = "t_load"
  /\ UNCHANGED <<cli, settings, svc_auth_token, svc_token_written, run, retry, ub, net,
                 result>>
  /\ ClientStep

InitTemplate ==
  /\ settings = NoSettings
  /\ \E d \in HandWritten :
       files = [search_json |-> FALSE, upsert_json |-> TRUE, upsert_data |-> <<d>>,
                writes |-> 0]
  /\ svc_auth_token = NONE
  /\ svc_token_written = FALSE
  /\ pc = "t_load"
  /\ run = [NoRun EXCEPT !.entry = "upsert_messages"]
  /\ retry = NoRetry
  /\ ub = NoUb
  /\ net = NoNet
  /\ clients = NoClients
  /\ cli = NoCli
  /\ result = NoResult

SpecTemplate == InitTemplate /\ [][Template_Load \/ Template_Write]_vars

\* ----------------------------------------------------------- the gateways
NoFiles == [search_json |-> FALSE, upsert_json |-> FALSE, upsert_data |-> <<>>, writes |-> 0]

InitDirect ==
  /\ settings = NoSettings
  /\ files = NoFiles
  /\ svc_auth_token = NONE
  /\ svc_token_written = FALSE
  /\ pc = "idle"
  /\ run = NoRun
  /\ retry = NoRetry
  /\ ub = NoUb
  /\ net = NoNet
  /\ clients = NoClients
  /\ cli = NoCli
  /\ result = NoResult

NextSearch ==
  \/ Search_Direct
  \/ Search_Send
  \/ Search_Recv
  \/ Search_Sleep
  \/ Search_Exhausted
  \/ CallOver

NextBatch ==
  \/ UpsertBatch_Direct
  \/ UpsertOne_Direct
  \/ UpsertBatch_Enter
  \/ UpsertBatch_Loop
  \/ Upsert_Send
  \/ Upsert_Recv
  \/ Upsert_Sleep
  \/ Upsert_Exhausted
  \/ CallOver

Next ==
  \/ Upsert_Start
  \/ FetchAndSave_Start
  \/ FetchAndSave_Searched
  \/ UpsertMessages_Start
  \/ UpsertMessages_Load
  \/ Upsert_Token
  \/ Upsert_Load
  \/ Upsert_Searched
  \/ Upsert_OpenUpsertClient
  \/ DoUpsert_Start
  \/ DoUpsert_Load
  \/ DoUpsert_Searched
  \/ DoUpsert_OpenUpsertClient
  \/ Auth_Send
  \/ Auth_Recv
  \/ Search_Send
  \/ Search_Recv
  \/ Search_Sleep
  \/ Search_Exhausted
  \/ UpsertBatch_Enter
  \/ UpsertBatch_Loop
  \/ Upsert_Send
  \/ Upsert_Recv
  \/ Upsert_Sleep
  \/ Upsert_Exhausted
  \/ Aggregate
  \/ CallOver

Spec == Init /\ [][Next]_vars
SpecSearch == InitDirect /\ [][NextSearch]_vars
SpecBatch == InitDirect /\ [][NextBatch]_vars
\* search() on each body it can be answered with
InitParse ==
  /\ settings = NoSettings
  /\ files = NoFiles
  /\ svc_auth_token = NONE
  /\ svc_token_written = FALSE
  /\ pc = "s_parse"
  /\ \E data \in SearchBodies :
       run = [NoRun EXCEPT !.entry = "search", !.response = <<data>>]
  /\ retry = NoRetry
  /\ ub = NoUb
  /\ net = NoNet
  /\ clients = NoClients
  /\ cli = NoCli
  /\ result = NoResult
SpecParse == InitParse /\ [][Search_Parse]_vars
\* both gateways, called directly
SpecClients == InitDirect /\ [][NextSearch \/ NextBatch]_vars
\* the one task is scheduled again whenever it can take a step: every await
\* on the network returns and every sleep ends
\* (a requests directory that holds both templates)
InitLive == Init /\ files = [search_json |-> TRUE, upsert_json |-> TRUE, upsert_data |-> <<>>,
                              writes |-> 0]
SpecLive == InitLive /\ [][Next]_vars /\ WF_vars(Next)

\* ------------------------------------------------------------- properties
Ceil(n, b) == (n + b - 1) \div b

\* the upsert requests that open a chunk (its attempt 0), in the order sent
FirstSends(sent) == SelectSeq(sent, LAMBDA x : x.attempt = 0)

RECURSIVE Concat(_)
Concat(sent) == IF sent = <<>> THEN <<>> ELSE Head(sent).chunk \o Concat(Tail(sent))

IsPrefix(s, t) == Len(s) <= Len(t) /\ s = SubSeq(t, 1, Len(s))

\* b, ..., b and the remainder: the sizes of ceil(n/b) chunks of n messages
ExpectedSizes(n, b) ==
  [k \in 1..Ceil(n, b) |-> IF k < Ceil(n, b) THEN b ELSE n - b * (Ceil(n, b) - 1)]

RECURSIVE RetryLog(_, _, _)
\* what the transport sees of attempts k .. m-1 when every one fails and is
\* retried: the request, its reply, and 2^k seconds of sleep unless it was the last
RetryLog(what, k, m) ==
  IF k >= m THEN <<>>
  ELSE <<Ev("send", what, k), Ev("recv", what, k)>>
         \o (IF k < m - 1 THEN <<Ev("sleep", what, 2 ^ k)>> ELSE <<>>)
         \o RetryLog(what, k + 1, m)

StepRank(what) ==
  CASE what = "auth" -> 1
    [] what = "search" -> 2
    [] what = "upsert" -> 3

\* every artifact of the run was written
WritesDone == Len(run.artifacts) = (IF run.upsert_ri # <<>> THEN 3 ELSE 2)

\* C1: a call of SyncService.upsert that is over has returned a SyncResult,
\* whatever its input and whichever step failed: no exception has left it
\* (here for a settings object that has every method the call uses).
C1_UpsertNeverRaises ==
  (run.entry = "upsert" /\ pc = "returned" /\ settings.has_api_key)
    => result.kind = "SyncResult"

\* C2: when the authentication of a SyncService.upsert run fails, the run is
\* over with a SyncResult that has success false, the message of the caught
\* exception as error and source_count 0, and no search request and no upsert
\* request was sent.
C2_AuthFailure ==
  (run.entry = "upsert" /\ run.auth_exc # NoExc) =>
    /\ pc = "returned"
    /\ result.kind = "SyncResult"
    /\ ~result.success
    /\ result.error = ExcStr(run.auth_exc)
    /\ result.source_count = 0
    /\ net.search = 0
    /\ net.sent = <<>>

C2_Witness ==
  /\ run.entry = "upsert"
  /\ run.auth_exc.type = "HTTPStatusError"
  /\ net.auth = 1
  /\ pc = "returned"

\* the token of the run was supplied by the caller, cached by the service, or
\* the token endpoint answered the run's authentication with a 2xx
TokenResolved ==
  \/ run.auth_token # NONE /\ run.token = run.auth_token
  \/ run.auth_token = NONE /\ net.auth = 0 /\ run.token # NONE
  \/ run.auth_ok

C4_EmptySearch ==
  (run.entry \in {"upsert", "do_upsert"} /\ run.search_returned /\ run.source_count = 0) =>
    /\ pc \in {"su_searched", "du_searched", "returned"}
    /\ pc = "returned" =>
         /\ result.kind = "SyncResult"
         /\ result.success
         /\ result.source_count = 0
         /\ result.error = NONE
    /\ \A i \in DOMAIN run.artifacts :
         run.artifacts[i].kind \notin {"upsert_body", "upsert_template"}
    /\ net.sent = <<>>

C4_Witness ==
  /\ run.entry = "upsert"
  /\ run.search_returned
  /\ run.source_count = 0
  /\ pc = "returned"
  /\ result.success

\* C5: a SyncService.upsert run whose search returned n > 0 messages, with
\* batch size b > 0 and all its artifacts written, has sent when it is over
\* exactly ceil(n/b) chunks, in order, of sizes b, ..., b and the remainder.
C5_UpsertSendsCeilChunks ==
  (run.entry = "upsert" /\ pc = "returned" /\ run.search_returned
     /\ run.source_count > 0 /\ run.batch_size > 0 /\ WritesDone) =>
    /\ [i \in DOMAIN FirstSends(net.sent) |-> Len(FirstSends(net.sent)[i].chunk)]
         = ExpectedSizes(run.source_count, run.batch_size)
    /\ Concat(FirstSends(net.sent)) = run.messages

\* C6: for n messages and batch size b >= 1, every chunk upsert_batch sends
\* has between 1 and b messages, the chunks sent so far are, concatenated in
\* the order sent, the head of the original list, and the list upsert_batch
\* returns has exactly ceil(n/b) outcomes, the chunks then being the whole
\* original list in its order.
C6_BatchPartition ==
  (run.entry = "upsert_batch" /\ ub.batch_size >= 1) =>
    /\ \A i \in DOMAIN net.sent : Len(net.sent[i].chunk) \in 1..ub.batch_size
    /\ IsPrefix(Concat(FirstSends(net.sent)), ub.messages)
    /\ (pc = "returned" /\ result.kind = "list") =>
         /\ Len(result.value) = Ceil(Len(ub.messages), ub.batch_size)
         /\ Len(FirstSends(net.sent)) = Ceil(Len(ub.messages), ub.batch_size)
         /\ Concat(FirstSends(net.sent)) = ub.messages

C6_Witness ==
  /\ run.entry = "upsert_batch"
  /\ pc = "returned"
  /\ result.kind = "list"
  /\ Len(ub.messages) = 3
  /\ ub.batch_size = 2
  /\ Len(result.value) = 2

\* C7 as stated: upsert_batch of an empty list returns a list of exactly one
\* outcome, with success true and all counts zero, and makes no network call.
C7_EmptyBatchOneOutcome ==
  (run.entry = "upsert_batch" /\ pc = "returned" /\ ub.messages = <<>>) =>
    /\ result.kind = "list"
    /\ result.value = <<UpsertResult(TRUE, 0, 0, <<>>, <<>>)>>
    /\ net.log = <<>>

\* C7: upsert_batch of an empty list returns the empty list, no outcome at
\* all, and makes no network call.
C7_EmptyBatchNoOutcome ==
  (run.entry = "upsert_batch" /\ pc = "returned" /\ ub.messages = <<>>) =>
    /\ result.kind = "list"
    /\ result.value = <<>>
    /\ net.log = <<>>
    /\ net.sent = <<>>

C7_Witness ==
  /\ run.entry = "upsert_batch"
  /\ pc = "returned"
  /\ ub.messages = <<>>
  /\ ub.batch_size >= 1
  /\ result.kind = "list"

\* C8: at every moment of a run at most one network request is in flight: a
\* request is sent only when the one before it was answered, the request of
\* chunk k+1 only when the outcomes of the k chunks before it are recorded,
\* and attempt a >= 1 of a request only directly after attempt a-1 was
\* answered and 2^(a-1) seconds were slept.
C8_OneRequestInFlight ==
  /\ net.inflight \in {0, 1}
  /\ net.inflight = 1 <=> pc \in {"a_wait", "s_wait", "u_wait"}
  /\ \A i \in DOMAIN net.log :
       (net.log[i].ev = "send" /\ i > 1) => net.log[i - 1].ev # "send"
  /\ \A i \in DOMAIN net.log :
       (net.log[i].ev = "send" /\ net.log[i].n >= 1) =>
         /\ i >= 3
         /\ net.log[i - 1] = Ev("sleep", net.log[i].what, 2 ^ (net.log[i].n - 1))
         /\ net.log[i - 2] = Ev("recv", net.log[i].what, net.log[i].n - 1)
  /\ Len(FirstSends(net.sent)) \in {Len(ub.results), Len(ub.results) + 1}
  /\ pc = "u_wait" => Len(FirstSends(net.sent)) = Len(ub.results) + 1

C8_Witness ==
  /\ run.entry = "do_upsert"
  /\ pc = "u_wait"
  /\ Len(ub.results) = 1
  /\ retry.attempt = 2

\* C9: a SearchClient.search with max_retries = m >= 1 whose every attempt
\* fails with a 5xx or a connection failure makes exactly m requests, sleeps
\* 2^0, ..., 2^(m-2) seconds between them and not before the first or after
\* the last, and then raises the exception of the last attempt.
C9_SearchExhaustsRetries ==
  (run.entry = "search" /\ pc = "returned" /\ run.max_retries >= 1
     /\ net.seen \subseteq {503, 0}) =>
    /\ net.search = run.max_retries
    /\ net.log = RetryLog("search", 0, run.max_retries)
    /\ result.kind = "raised"
    /\ result.exc.at = run.max_retries
    /\ result.exc.type \in {"HTTPStatusError", "ConnectError"}
    /\ net.seen = {503} => result.exc = ExcAt(HTTPStatusError(503), run.max_retries)
    /\ net.seen = {0} => result.exc = ExcAt(ConnectError, run.max_retries)

C9_Witness ==
  /\ run.entry = "search"
  /\ pc = "returned"
  /\ run.max_retries >= 4
  /\ net.seen = {503, 0}
  /\ result.kind = "raised"

\* the input of upsert_batch is one chunk
SingleChunk == ub.messages # <<>> /\ Len(ub.messages) <= ub.batch_size

\* C10 as stated: when every reply is a 503, upsert_batch on one non-empty
\* chunk makes exactly max_retries calls, sleeps 2^0, ..., 2^(max_retries-2)
\* seconds between them, and then raises to its caller.
C10_Exhausted503Raises ==
  (run.entry = "upsert_batch" /\ pc = "returned" /\ SingleChunk /\ net.seen = {503}) =>
    /\ Len(net.sent) = run.max_retries
    /\ net.log = RetryLog("upsert", 0, run.max_retries)
    /\ result.kind = "raised"

\* C10: when every reply is a 503, upsert_batch on one non-empty chunk makes
\* exactly max_retries calls, sleeps 2^0, ..., 2^(max_retries-2) seconds
\* between them, and then returns a list of one outcome with success false,
\* the chunk's length as failed and the error text: nothing is raised.
C10_Exhausted503Fails ==
  (run.entry = "upsert_batch" /\ pc = "returned" /\ SingleChunk /\ net.seen = {503}) =>
    /\ Len(net.sent) = run.max_retries
    /\ net.log = RetryLog("upsert", 0, run.max_retries)
    /\ result.kind = "list"
    /\ result.value = <<UpsertFailure(ub.messages,
                           WithBody(HTTPStatusError(503), net.last_reply.body))>>

C10_Witness ==
  /\ run.entry = "upsert_batch"
  /\ pc = "returned"
  /\ SingleChunk
  /\ net.seen = {503}
  /\ run.max_retries >= 3
  /\ result.kind = "list"

\* the last event at the transport
LastEv == net.log[Len(net.log)]

\* C11 as stated: once a search or upsert request is answered with a 400, no
\* retry and no sleep follows and the error is raised at once to the caller
\* of search / upsert_batch.
C11_ClientErrorPropagates ==
  400 \in net.seen =>
    /\ LastEv.ev = "recv"
    /\ pc = "returned"
    /\ result.kind = "raised"
    /\ result.exc.type = "HTTPStatusError"

\* C11: a request answered with a 400 is never retried: its reply is the last
\* event at the transport of that _request_with_retry call, right after its
\* send, no sleep follows, and a call that saw nothing but the 400 made one
\* request.  search raises the error to its caller at once; upsert turns it
\* into a failed outcome of the chunk (success false, failed = chunk length)
\* and upsert_batch goes on: nothing is raised to the caller of upsert_batch.
C11_ClientErrorNotRetried ==
  400 \in net.seen =>
    /\ Len(net.log) >= 2
    /\ LastEv.ev = "recv"
    /\ net.log[Len(net.log) - 1] = Ev("send", LastEv.what, LastEv.n)
    /\ net.seen = {400} => LastEv.n = 0
    /\ pc \in {"returned", "ub_loop"}
    /\ run.entry = "search" =>
         /\ pc = "returned"
         /\ result = Raised(ExcAt(HTTPStatusError(400), LastEv.n + 1))
    /\ DirectUpsert =>
         /\ result.kind # "raised"
         /\ ub.results # <<>>
         /\ ub.results[Len(ub.results)]
              = UpsertFailure(ub.batch,
                              WithBody(HTTPStatusError(400), net.last_reply.body))

C11_Witness ==
  /\ run.entry = "upsert_batch"
  /\ 400 \in net.seen
  /\ pc = "ub_loop"
  /\ Len(ub.results) = 1
  /\ Len(ub.messages) > ub.batch_size

RECURSIVE Total(_, _)
\* the sum of a count over a list of outcomes
Total(outcomes, field) ==
  IF outcomes = <<>> THEN 0
  ELSE outcomes[1][field] + Total(SubSeq(outcomes, 2, Len(outcomes)), field)

\* a chunk of the run ended without a successful outcome: with a failed
\* outcome, or with an exception that left upsert_batch
SomeChunkFailed ==
  \/ \E i \in DOMAIN ub.results : ~ub.results[i].success
  \/ Len(FirstSends(net.sent)) > Len(ub.results)

\* C12: a sync run that is over, in which at least one chunk was upserted
\* successfully and at least one failed terminally (HTTP error, or a
\* connection failure that outlasted the retries), has returned a SyncResult
\* with success false whose upsert_results hold the outcome of every chunk
\* that completed and whose total_created is the sum of their created counts.
C12_PartialFailureKeepsProgress ==
  (run.entry \in {"upsert", "do_upsert"} /\ pc = "returned"
     /\ (\E i \in DOMAIN ub.results : ub.results[i].success)
     /\ SomeChunkFailed) =>
    /\ result.kind = "SyncResult"
    /\ ~result.success
    /\ \A i \in DOMAIN ub.results :
         i \in DOMAIN result.upsert_results /\ result.upsert_results[i] = ub.results[i]
    /\ result.total_created = Total(ub.results, "created")

\* the results UpsertClient.upsert has produced in the running call: the
\* outcomes recorded by upsert_batch, and the result of upsert called directly
UpsertResultsSoFar ==
  {ub.results[i] : i \in DOMAIN ub.results}
    \cup (IF result.kind = "list" THEN {result.value[i] : i \in DOMAIN result.value} ELSE {})

\* C13: every UpsertResult that UpsertClient.upsert produces, for any chunk
\* (the empty one too) and any reply of the target, has success false when
\* failed > 0 and has no errors when success is true.
C13_UpsertResultInvariant ==
  DirectUpsert =>
    \A r \in UpsertResultsSoFar :
      /\ r.failed > 0 => ~r.success
      /\ r.success => r.errors = <<>>

C13_Witness ==
  /\ run.entry = "upsert_batch"
  /\ pc = "returned"
  /\ \E r \in UpsertResultsSoFar : r.failed > 0 /\ r.errors # <<>>
  /\ \E r \in UpsertResultsSoFar : r.success /\ r.created > 0

\* C14 as stated: in every SyncResult that upsert or upsert_messages returns,
\* the Failed one included, success is the conjunction of success over its
\* upsert_results.
C14_SuccessIsConjunction ==
  (run.entry \in ServiceEntries /\ pc = "returned" /\ result.kind = "SyncResult") =>
    result.success = (\A i \in DOMAIN result.upsert_results : result.upsert_results[i].success)

\* C14: in a SyncResult without error (Succeeded, Succeeded-Empty,
\* Succeeded-With-Failures) success is the conjunction of success over its
\* upsert_results; the Failed result, which carries the error, has success
\* false and no upsert_results.
C14_SuccessConjunctionOrFailed ==
  (run.entry \in ServiceEntries \cup {"do_upsert"} /\ pc = "returned"
     /\ result.kind = "SyncResult") =>
    IF result.error = NONE
      THEN result.success
             = (\A i \in DOMAIN result.upsert_results : result.upsert_results[i].success)
      ELSE ~result.success /\ result.upsert_results = <<>>

C14_Witness ==
  /\ run.entry = "upsert_messages"
  /\ pc = "returned"
  /\ result.kind = "SyncResult"
  /\ result.error # NONE
  /\ ~result.success
  /\ result.source_count > 0

\* C15: a run that went through the Aggregate step (its search returned
\* messages and it ended without error) returns the outcomes of upsert_batch
\* with total_created, total_updated and total_failed the sums of created,
\* updated and failed over them, and success true iff every outcome succeeded.
C15_AggregateSums ==
  (run.entry \in {"upsert", "do_upsert"} /\ pc = "returned" /\ result.kind = "SyncResult"
     /\ result.error = NONE /\ run.source_count > 0) =>
    /\ result.upsert_results = ub.results
    /\ result.total_created = Total(ub.results, "created")
    /\ result.total_updated = Total(ub.results, "updated")
    /\ result.total_failed = Total(ub.results, "failed")
    /\ result.success <=> (\A i \in DOMAIN ub.results : ub.results[i].success)
    /\ result.source_count = run.source_count

C15_Witness ==
  /\ run.entry = "do_upsert"
  /\ pc = "returned"
  /\ result.error = NONE
  /\ Len(result.upsert_results) = 2
  /\ result.upsert_results[1].success
  /\ ~result.upsert_results[2].success
  /\ result.total_created = 1
  /\ result.total_failed = 1
  /\ ~result.success

Fetched == run.artifacts[1].messages

\* the fetched messages with the target locale in place of their own
FetchedInTargetLocale ==
  [i \in DOMAIN Fetched |->
     [code |-> Fetched[i].code, message |-> Fetched[i].message,
      module |-> Fetched[i].module, locale |-> run.target_locale]]

\* C17: the messages of the upsert body, and the messages sent to the target
\* chunk after chunk, are the fetched messages in their order with code,
\* message and module unchanged and the target locale as locale; with equal
\* source and target locale they are the fetched records themselves.
C17_LocaleTransform ==
  (run.entry \in {"upsert", "do_upsert"} /\ Len(run.artifacts) >= 2) =>
    /\ Len(Fetched) = run.source_count
    /\ run.artifacts[2].messages = FetchedInTargetLocale
    /\ IsPrefix(Concat(FirstSends(net.sent)), FetchedInTargetLocale)
    /\ (pc = "returned" /\ result.error = NONE /\ run.batch_size > 0) =>
         Concat(FirstSends(net.sent)) = FetchedInTargetLocale
    /\ run.target_locale = run.source_locale =>
         /\ run.artifacts[2].messages = Fetched
         /\ IsPrefix(Concat(FirstSends(net.sent)), Fetched)

C17_Witness ==
  /\ run.entry = "do_upsert"
  /\ pc = "returned"
  /\ result.error = NONE
  /\ run.source_locale # run.target_locale
  /\ Len(FirstSends(net.sent)) = 2
  /\ Concat(FirstSends(net.sent)) = FetchedInTargetLocale

\* the events of the token endpoint in the log of the call
AuthEvents == SelectSeq(net.log, LAMBDA e : e.what = "auth")

\* C18: an authentication sends one token request and no more: the token
\* endpoint sees at most one request per call, and a non-2xx answer ends the
\* authentication with the HTTP status error at once; no further request, no
\* sleep and no other step follows the answer.
C18_AuthOnceNoRetry ==
  /\ AuthEvents \in {<<>>, <<Ev("send", "auth", 0)>>,
                     <<Ev("send", "auth", 0), Ev("recv", "auth", 0)>>}
  /\ net.auth = (IF AuthEvents = <<>> THEN 0 ELSE 1)
  /\ run.auth_status >= 300 =>
       /\ run.auth_exc = HTTPStatusError(run.auth_status)
       /\ pc = "returned"
       /\ ~result.success
       /\ result.error = ExcStr(run.auth_exc)
       /\ net.log = <<Ev("send", "auth", 0), Ev("recv", "auth", 0)>>
       /\ retry = NoRetry

C18_Witness ==
  /\ run.auth_status = 503
  /\ net.auth = 1
  /\ pc = "returned"
  /\ result.error = ExcStr(HTTPStatusError(503))

\* the run has a token without asking for one: the caller supplied it, or
\* the service had one cached when the run began
HasToken == run.auth_token # NONE \/ run.cached # NONE

\* the token such a run has to use: the caller's before the cached one
GivenToken == IF run.auth_token # NONE THEN run.auth_token ELSE run.cached

\* the run of the service is past its token step
PastTokenStep ==
  /\ run.entry \in ServiceEntries
  /\ pc \notin {"idle", "su_token", "a_send"}
  /\ result.kind # "raised"

C20_TokenWrittenOnce ==
  [][svc_token_written =>
       /\ svc_auth_token' = svc_auth_token
       /\ ~(pc = "a_wait" /\ run.entry \in ServiceEntries /\ run'.auth_ok)]_vars

\* the messages of the configuration errors Settings raises
ConfigMessages ==
  {"Unknown environment", "No API URL configured", "Unknown language", "No locale configured"}

\* the call is over and it ended with a configuration error
HitConfigError ==
  /\ pc = "returned"
  /\ \/ result.kind = "raised" /\ result.exc.type = "ValueError"
     \/ result.kind = "SyncResult" /\ result.error \in ConfigMessages

\* the lookups the run of the service needs: those of its entry point, and
\* the auth URL of the target when the run has to ask for a token
RunLookups ==
  (IF run.entry = "upsert"
     THEN { get_api_url(run.source_env), get_tenant_id(run.source_env),
            get_locale(run.source_env, run.lang),
            get_upsert_url(settings.is_localhost, run.target_env),
            get_tenant_id(run.target_env), get_locale(run.target_env, run.lang) }
     ELSE { get_upsert_url(settings.is_localhost, run.target_env) })
  \cup (IF HasToken THEN {} ELSE {get_auth_url(run.target_env)})

\* one of them cannot be resolved
ConfigBroken == \E r \in RunLookups : Failed(r)

C22_RequestsCarryToken ==
  run.entry \in ServiceEntries \cup {"do_upsert"} =>
    \A c \in net.carried : c.authToken = run.token

\* C23: when a run (SyncService.upsert, upsert_messages, do_upsert) is over,
\* however it ended, no gateway of the run holds an open client and every
\* client the run created has been closed.
C23_ClientsReleased ==
  (Scoped /\ pc = "returned") =>
    /\ ~clients.search /\ ~clients.upsert /\ ~clients.auth
    /\ clients.closed = clients.opened

\* a run that ended with a failed batch after it had used all three gateways
C23_Witness ==
  /\ run.entry = "do_upsert"
  /\ pc = "returned"
  /\ clients.opened = 3
  /\ clients.closed = 3
  /\ result.kind = "SyncResult"
  /\ result.total_failed > 0

\* the kinds of the artifacts the call has written
ArtifactKinds == {run.artifacts[i].kind : i \in DOMAIN run.artifacts}

\* C24: a call of SyncService.upsert_messages sends no search request, sends
\* its token request before any upsert request, writes neither a
\* search-response nor an upsert-body artifact, and when it is over it has
\* returned a SyncResult whose source_count is the number of messages it was
\* given.
C24_ReplayRun ==
  run.entry = "upsert_messages" =>
    /\ net.search = 0
    /\ \A i, j \in DOMAIN net.log :
         (net.log[i].what = "upsert" /\ net.log[j].what = "auth") => j < i
    /\ ArtifactKinds \subseteq {"upsert_template"}
    /\ pc = "returned" =>
         /\ result.kind = "SyncResult"
         /\ result.source_count = Len(run.messages)

\* C25: a sync run (SyncService.upsert, do_upsert) that an exception ended
\* after its authentication has returned a SyncResult with success false and
\* the message of the exception as error, and its counts are zero only for
\* the steps that were not completed: when the search of the run had
\* returned n messages, source_count is n.
C25_FailedKeepsSearchCount ==
  (run.entry \in {"upsert", "do_upsert"} /\ pc = "returned"
     /\ result.kind = "SyncResult" /\ result.error # NONE /\ run.auth_exc = NoExc) =>
    /\ ~result.success
    /\ run.search_returned => result.source_count = run.source_count

\* C26: in upsert_batch a chunk that ends with a terminal HTTP error (a 4xx, or
\* a 5xx on the last attempt) does not end the loop: no HTTP status error
\* leaves upsert_batch, the chunk after a failed one is sent next, and a call
\* that returns its list has sent all ceil(n/b) chunks in order and has one
\* outcome per chunk, whatever the outcomes of the earlier chunks.
C26_FailedChunkDoesNotStopLoop ==
  (run.entry = "upsert_batch" /\ ub.batch_size > 0) =>
    /\ (pc = "returned" /\ result.kind = "raised") => result.exc.type # "HTTPStatusError"
    /\ Len(ub.results) <= Len(FirstSends(net.sent))
    /\ \A i \in DOMAIN ub.results :
         FirstSends(net.sent)[i].chunk = BatchSlice(ub.messages, (i - 1) * ub.batch_size,
                                                    ub.batch_size)
    /\ (pc = "returned" /\ result.kind = "list" /\ ub.messages # <<>>) =>
         /\ Len(result.value) = Ceil(Len(ub.messages), ub.batch_size)
         /\ Len(FirstSends(net.sent)) = Ceil(Len(ub.messages), ub.batch_size)
         /\ Concat(FirstSends(net.sent)) = ub.messages

\* the first chunk failed with an HTTP error and the second was sent and written
C26_Witness ==
  /\ run.entry = "upsert_batch"
  /\ pc = "returned"
  /\ result.kind = "list"
  /\ Len(result.value) = 2
  /\ ~result.value[1].success
  /\ result.value[2].success
  /\ Len(FirstSends(net.sent)) = 2

\* the outcome upsert_batch appended last
LastOutcome == ub.results[Len(ub.results)]

\* C27: when the upsert of a chunk ends with a terminal HTTP error (the last
\* reply to the chunk is a 4xx or 5xx and upsert() has returned), the outcome
\* of the chunk has success false, failed = the number of messages of the
\* chunk, created = updated = 0 and exactly one error string: the messages
\* of the body's Errors joined with "; " when the body has an Errors field,
\* else the text of the exception.  Every failed outcome has this shape.
C27_FailedOutcome ==
  /\ (pc = "ub_loop" /\ ub.results # <<>> /\ net.last_reply.kind = "http"
        /\ net.last_reply.status >= 400) =>
       /\ ~LastOutcome.success
       /\ LastOutcome.failed = Len(ub.batch)
       /\ LastOutcome.created = 0
       /\ LastOutcome.updated = 0
       /\ LastOutcome.messages = <<>>
       /\ LastOutcome.errors =
            << IF net.last_reply.body = <<>>
                 THEN ExcStr(HTTPStatusError(net.last_reply.status))
                 ELSE JoinMessages(net.last_reply.body[1]) >>
  /\ \A i \in DOMAIN ub.results :
       ~ub.results[i].success =>
         /\ Len(ub.results[i].errors) = 1
         /\ ub.results[i].errors[1] \in {"E1; E2", "client error", "server error"}
         /\ ub.results[i].failed > 0
         /\ ub.results[i].created = 0

\* an exhausted 503 whose body has an Errors field
C27_Witness ==
  /\ pc = "ub_loop"
  /\ ub.results # <<>>
  /\ net.last_reply.kind = "http"
  /\ net.last_reply.status = 503
  /\ Len(ub.batch) = 2
  /\ LastOutcome.failed = 2
  /\ LastOutcome.errors = <<"E1; E2">>

\* C28: when the upsert of a chunk succeeds (the reply is a 2xx), the outcome
\* of the chunk has success true, created = the number of messages in the
\* reply (all of the chunk when the target echoes it, none when the reply has
\* no "messages"), updated = failed = 0 and no errors; the outcome keeps the
\* messages of the reply.
C28_SuccessOutcome ==
  (pc = "ub_loop" /\ ub.results # <<>> /\ net.last_reply.kind = "http"
     /\ net.last_reply.status < 400) =>
    /\ LastOutcome.success
    /\ LastOutcome.created = (IF net.last_reply.echo THEN Len(ub.batch) ELSE 0)
    /\ LastOutcome.created = Len(LastOutcome.messages)
    /\ LastOutcome.updated = 0
    /\ LastOutcome.failed = 0
    /\ LastOutcome.errors = <<>>

\* a successful run whose totals do not add up to its source_count
C28_Witness ==
  /\ run.entry = "do_upsert"
  /\ pc = "returned"
  /\ result.success
  /\ result.source_count = 2
  /\ Len(result.upsert_results) = 2
  /\ result.total_created = 1
  /\ result.total_created + result.total_updated + result.total_failed # result.source_count

\* the number of files a run with a non-empty search result writes before it
\* upserts: the template is updated by SyncService.upsert when upsert.json
\* has a RequestInfo
WritesBeforeUpsert == IF run.entry = "upsert" /\ run.upsert_ri # <<>> THEN 3 ELSE 2

\* C29: in a sync run with a non-empty search result the files are written in
\* the order search response, upsert body, upsert template; the search
\* response holds the messages as the search returned them, in the source
\* locale, the upsert body and the template hold the transformed messages;
\* and all of them are written before the upsert client is built and the
\* first upsert request is sent.
C29_ArtifactsAroundTransform ==
  run.entry \in {"upsert", "do_upsert"} =>
    /\ Len(run.artifacts) <= WritesBeforeUpsert
    /\ Len(run.artifacts) >= 1 =>
         /\ run.artifacts[1].kind = "search_response"
         /\ run.artifacts[1].locale = run.source_locale
         /\ run.artifacts[1].messages = MsgList(run.source_count, run.source_locale)
         /\ run.source_count > 0
    /\ Len(run.artifacts) >= 2 =>
         /\ run.artifacts[2].kind = "upsert_body"
         /\ run.artifacts[2].locale = run.target_locale
         /\ run.artifacts[2].messages = MsgList(run.source_count, run.target_locale)
    /\ Len(run.artifacts) >= 3 =>
         /\ run.artifacts[3].kind = "upsert_template"
         /\ run.artifacts[3].messages = MsgList(run.source_count, run.target_locale)
    /\ (pc \in {"su_upsert", "du_upsert", "aggregate"} \/ InUpsertBlock(pc) \/ net.sent # <<>>) =>
         Len(run.artifacts) = WritesBeforeUpsert

C29_Witness ==
  /\ run.entry = "upsert"
  /\ pc = "su_upsert"
  /\ run.source_locale # run.target_locale
  /\ Len(run.artifacts) = 3
  /\ run.artifacts[1].messages[1].locale = run.source_locale
  /\ run.artifacts[2].messages[1].locale = run.target_locale
  /\ net.sent = <<>>

\* the call ended with a failed write of a file
WriteFailed ==
  \/ result.kind = "SyncResult" /\ result.error = "write failed"
  \/ result.kind = "raised" /\ result.exc.detail = "write failed"

\* C30: when a call of SyncService.upsert or SyncService.fetch_and_save whose
\* search returned without error (with any number of messages, zero included)
\* is over, the search-response artifact of the source environment and source
\* locale has been written and holds the messages the search returned.
C30_EverySearchSaved ==
  (run.entry \in {"upsert", "fetch_and_save"} /\ run.search_returned
     /\ pc = "returned" /\ ~WriteFailed) =>
    /\ Len(run.artifacts) >= 1
    /\ run.artifacts[1].kind = "search_response"
    /\ run.artifacts[1].env = run.source_env
    /\ run.artifacts[1].locale = run.source_locale
    /\ run.artifacts[1].messages = MsgList(run.source_count, run.source_locale)

\* C31: in a sync run (SyncService.upsert, do_upsert) a transient failure that
\* lasts through every attempt of a retry loop ends in a failed run: once the
\* search has run out of attempts the run is over with a SyncResult that has
\* success false and the text of the last failure as error, and no upsert
\* request was sent; a run in which an upsert chunk ran out of attempts
\* returns a SyncResult with success false.
C31_ExhaustedTransientFailsRun ==
  (run.entry \in {"upsert", "do_upsert"} /\ net.exhausted # {}) =>
    /\ "search" \in net.exhausted =>
         /\ pc = "returned"
         /\ net.search = SearchDefaultMaxRetries
         /\ net.sent = <<>>
         /\ result.error \in {ExcStr(HTTPStatusError(503)), ExcStr(ConnectError)}
    /\ "upsert" \in net.exhausted =>
         \E i \in DOMAIN net.sent : net.sent[i].attempt = UpsertDefaultMaxRetries - 1
    /\ pc = "returned" =>
         /\ result.kind = "SyncResult"
         /\ ~result.success

C31_Witness ==
  /\ run.entry = "do_upsert"
  /\ "upsert" \in net.exhausted
  /\ pc = "returned"
  /\ Len(result.upsert_results) = 2
  /\ result.upsert_results[1].success

\* the requests of the running call stay within what its retry limits and
\* its number of chunks allow
RunBounds ==
  /\ net.auth <= 1
  /\ net.search <= run.max_retries
  /\ run.batch_size >= 1 =>
       Len(net.sent) <= ub.max_retries * Ceil(run.source_count, run.batch_size)

\* C32: a run sends at most one authentication request, at most m search
\* requests and, with a batch size b >= 1 and a search result of n messages,
\* at most m * ceil(n / b) upsert requests (m: the retry limit of the
\* gateway); and when every network call returns, a run that has started gets
\* to its end and returns.
C32_RunTerminates ==
  /\ []RunBounds
  /\ (pc # "idle") ~> (pc = "returned")

C32_Witness ==
  /\ run.entry = "do_upsert"
  /\ pc = "returned"
  /\ net.auth = 1
  /\ net.search = SearchDefaultMaxRetries
  /\ run.source_count = 2
  /\ run.batch_size = 1
  /\ Len(net.sent) = UpsertDefaultMaxRetries * 2

\* the base URL the upsert requests of the run are meant for
ExpectedUpsertUrl ==
  IF settings.is_localhost THEN LocalhostUrl ELSE EnvConfig[run.target_env].api_url

\* C33: in local-upsert mode the UpsertClient of a run is built on the local
\* override endpoint and every upsert request goes there, none to the API URL
\* of the target environment, while the authentication request goes to the
\* token endpoint of the remote target environment; outside local-upsert mode
\* the UpsertClient is built on, and every upsert request goes to, the API
\* URL of the target environment.
C33_UpsertEndpoint ==
  run.entry \in {"upsert", "upsert_messages", "do_upsert"} =>
    /\ \A u \in net.urls :
         /\ u.what = "upsert" => u.url = ExpectedUpsertUrl
         /\ (u.what = "upsert" /\ settings.is_localhost)
              => u.url # EnvConfig[run.target_env].api_url
         /\ u.what = "auth"
              => u.url = EnvConfig[run.target_env].api_url \o "/user/oauth/token"
    /\ pc \notin {"idle", "returned"} => run.upsert_url = ExpectedUpsertUrl

C33_Witness ==
  /\ run.entry = "do_upsert"
  /\ settings.is_localhost
  /\ run.target_env = "uat"
  /\ [what |-> "auth", url |-> "https://uat/user/oauth/token"] \in net.urls
  /\ [what |-> "upsert", url |-> LocalhostUrl] \in net.urls

\* the module filter of the run, or the module of its first message
ExpectedModule == IF run.module # NONE THEN run.module ELSE run.messages[1].module

\* C34: in a sync run the module of the upsert body that is saved, of the
\* updated upsert template and of every upsert request is the module filter
\* when one was given and else the module of the first message after the
\* transform; every chunk of the run is sent with that one module.
C34_UpsertModule ==
  run.entry \in {"upsert", "do_upsert"} =>
    /\ \A i \in DOMAIN run.artifacts :
         run.artifacts[i].kind \in {"upsert_body", "upsert_template"}
           => run.artifacts[i].module = ExpectedModule
    /\ pc \in {"su_upsert", "du_upsert"} => run.upsert_module = ExpectedModule
    /\ net.sent # <<>> => net.modules = {ExpectedModule}

C34_Witness ==
  /\ run.entry = "do_upsert"
  /\ Len(FirstSends(net.sent)) = 2
  /\ net.modules = {"m1"}
  /\ run.messages[1].module # "m1"
  /\ run.artifacts[2].module = "m1"

\* the body that search() parsed in this state
ParsedBody == run.response[1]

\* C35: search() turns a {"messages": [...]} envelope and a bare list with
\* the same elements into the same list of messages, one message per element
\* in the order of the response; and a body without records (an empty
\* envelope, an empty list, a dict without "messages") gives the empty list,
\* not an error.
C35_SearchNormalizes ==
  (run.response # <<>> /\ pc = "returned") =>
    /\ result.kind = "list"
    /\ ParsedBody.shape \in {"envelope", "list"} =>
         /\ Len(result.value) = Len(ParsedBody.items)
         /\ \A i \in DOMAIN ParsedBody.items : result.value[i] = ParsedBody.items[i]
         /\ \A shape \in {"envelope", "list"} :
              result.value = ParseSearchResponse(SearchData(shape, ParsedBody.items))
    /\ (ParsedBody.items = <<>> \/ ParsedBody.shape = "other") => result.value = <<>>

C35_Witness ==
  /\ run.response # <<>>
  /\ pc = "returned"
  /\ ParsedBody.shape = "list"
  /\ Len(ParsedBody.items) = 2
  /\ ParsedBody.items[1].code > ParsedBody.items[2].code
  /\ result.value = ParsedBody.items

\* the tokens in the search and upsert envelopes of the running call
EnvelopeTokens ==
  {ri[1].authToken : ri \in {r \in {run.search_ri, run.upsert_ri} : r # <<>>}} \ {NONE}

\* C36: over the runs of one SyncService, every token in the search or upsert
\* envelope of a run was supplied by the caller of that run or was issued by
\* the token endpoint of that run's own target environment.
C36_TokenFromCallerOrOwnTarget ==
  run.entry \in ServiceEntries =>
    \A t \in EnvelopeTokens :
      \/ t = run.auth_token
      \/ run.target_env \in DOMAIN TokenOf /\ t = TokenOf[run.target_env]

\* the modules of the runs that command k made, in the order of the runs
RunModules(k) ==
  LET rs == SelectSeq(cli.runs, LAMBDA r : r.k = k)
  IN [i \in DOMAIN rs |-> rs[i].module]
\* some run of command k returned success = false
SomeRunFailed(k) ==
  \E i \in DOMAIN cli.runs :
    cli.runs[i].k = k /\ ~cli.runs[i].raised /\ ~cli.runs[i].success

\* C37: when a multi-module command of main.py has ended, every module it
\* listed got exactly one run, in list order, whatever the earlier runs
\* returned; upsert exits with code 1 exactly when some run returned
\* success = false; batch has passed + failed equal to the number of parsed
\* commands, and a command is counted as failed exactly when one of its runs
\* was unsuccessful.
C37_CliKeepsGoing ==
  (cli.cmd # "none" /\ cli.exit # -1) =>
    /\ \A k \in DOMAIN cli.commands : RunModules(k) = cli.commands[k].modules
    /\ cli.cmd = "upsert" => ((cli.exit = 1) <=> SomeRunFailed(1))
    /\ cli.cmd = "batch" =>
         /\ cli.passed + cli.failed = Len(cli.commands)
         /\ Len(cli.verdicts) = Len(cli.commands)
         /\ \A k \in DOMAIN cli.verdicts : cli.verdicts[k] <=> SomeRunFailed(k)
         /\ cli.failed = Cardinality({k \in DOMAIN cli.verdicts : cli.verdicts[k]})

\* the running call of a gateway has got to its _request_with_retry
TransportReached ==
  \/ run.entry = "search"
  \/ run.entry = "upsert_one" /\ ub.messages # <<>>
  \/ run.entry = "upsert_batch" /\ ub.messages # <<>> /\ ub.batch_size > 0

\* C38: with max_retries <= 0 the _request_with_retry of SearchClient and of
\* UpsertClient sends no request and never sleeps, and the call that got to
\* it ends with the generic Exception("Request failed after retries"): no
\* response is returned.
C38_NoAttemptsRaisesGeneric ==
  (run.entry \in {"search", "upsert_one", "upsert_batch"} /\ run.max_retries <= 0) =>
    /\ net.log = <<>>
    /\ net.search = 0
    /\ net.sent = <<>>
    /\ net.inflight = 0
    /\ pc \notin {"s_wait", "s_sleep", "u_wait", "u_sleep"}
    /\ (pc = "returned" /\ TransportReached) =>
         result = Raised(Exc("Exception", "Request failed after retries"))

C38_Witness ==
  /\ run.entry = "search"
  /\ run.max_retries < 0
  /\ pc = "returned"
  /\ result.exc.type = "Exception"

\* the envelope metadata of a RequestInfo: every field but authToken
Metadata(ri) == [ri EXCEPT !.authToken = NONE]

\* C39: the upsert template round-trips: once a run has written
\* requests/upsert.json, loading the file gives a RequestInfo equal to the one
\* that was written, so the next run finds the envelope metadata (apiId, ver,
\* action, msgId, userInfo and the rest, all but authToken) that the run
\* before it had.
C39_TemplateRoundTrip ==
  (files.writes > 0 /\ pc = "t_load") =>
    /\ LoadFullRequestInfo(files.upsert_data[1]) = run.upsert_ri[1]
    /\ \A token \in {NONE, "T_uat", "T_qa"} :
         Metadata([LoadFullRequestInfo(files.upsert_data[1]) EXCEPT !.authToken = token])
           = Metadata(run.upsert_ri[1])

C39_Witness ==
  /\ files.writes = 2
  /\ pc = "t_load"
  /\ run.upsert_ri[1].userInfo # <<>>
  /\ run.upsert_ri[1].userInfo[1].name = NONE
  /\ run.upsert_ri[1].authToken = "T_qa"
  /\ run.upsert_ri[1].apiId = "asset-services"

====
